---- MODULE Spec2Model ----
(***************************************************************************)
(* A model of the ArtellaUpdater bootstrapper (src/scripts/app.py): the    *)
(* construction of the updater (tag resolution), its _load sequence        *)
(* (prerequisites, install path, environment, deployment download with     *)
(* retries, requirements install) and the user's configuration store.      *)
(*                                                                         *)
(* Tags and version strings are sequences of one-character strings.        *)
(* Paths are strings.  Python's None is NoneTag for a tag and NoPath for   *)
(* a path.                                                                 *)
(***************************************************************************)
EXTENDS Integers, Sequences, FiniteSets, TLC

\* ------------------------------------------------------------------------
\* Characters and literal tags of the input domain
\* ------------------------------------------------------------------------

DigitChars == <<"0", "1", "2", "3", "4", "5", "6", "7", "8", "9">>

IsDigit(c) == \E n \in 1..Len(DigitChars) : DigitChars[n] = c

DigitVal(c) == (CHOOSE n \in 1..Len(DigitChars) : DigitChars[n] = c) - 1

\* str(None), as format() renders a missing tag into the archive URL
NoneTag == <<"None">>

EmptyTag == <<>>

DevTag == <<"D", "E", "V">>

V1 == <<"1", ".", "0">>

V2 == <<"2", ".", "0">>

RawV2 == <<" ", "v", "2", ".", "0">>

V3rc == <<"3", ".", "0", "r", "c", "1">>

VBad == <<"v", "X">>

\* ------------------------------------------------------------------------
\* packaging.version.Version on the dotted-numeric / rc subset of PEP 440
\* ------------------------------------------------------------------------

RECURSIVE DigitsEnd(_, _)
\* the index of the last character of the run of digits of s that starts at i
\* (i - 1 when s[i] is not a digit)
DigitsEnd(s, i) ==
    IF i <= Len(s) /\ IsDigit(s[i]) THEN DigitsEnd(s, i + 1) ELSE i - 1

RECURSIVE NumVal(_, _, _)
\* the number written by the digits s[i..j]
NumVal(s, i, j) ==
    IF j < i THEN 0 ELSE NumVal(s, i, j - 1) * 10 + DigitVal(s[j])

\* a release that starts with the number n and goes on as the release r
ConsRelease(n, r) == [ok |-> TRUE, comps |-> <<n>> \o r.comps, next |-> r.next]

RECURSIVE ParseRelease(_, _)
\* the release segment N(.N)* of s from i, whose first run of digits ends at j
ParseReleaseTo(s, i, j) ==
    IF j < i THEN [ok |-> FALSE, comps |-> <<>>, next |-> i]
    ELSE IF j + 2 <= Len(s) /\ s[j + 1] = "." /\ IsDigit(s[j + 2])
         THEN ConsRelease(NumVal(s, i, j), ParseRelease(s, j + 2))
         ELSE [ok |-> TRUE, comps |-> <<NumVal(s, i, j)>>, next |-> j + 1]

\* the release segment N(.N)* of s from i: its components and the index after it
ParseRelease(s, i) == ParseReleaseTo(s, i, DigitsEnd(s, i))

InvalidVersion == [ok |-> FALSE, comps |-> <<>>, pre |-> -1]

\* Version(s), given the release segment r of s: ok = FALSE stands for the
\* InvalidVersion exception; pre = -1 is a final release, pre = n the release
\* candidate rc<n>
VersionAfter(s, r) ==
    IF ~r.ok THEN InvalidVersion
    ELSE IF r.next > Len(s) THEN [ok |-> TRUE, comps |-> r.comps, pre |-> -1]
    ELSE IF r.next + 1 <= Len(s) /\ s[r.next] = "r" /\ s[r.next + 1] = "c"
              /\ DigitsEnd(s, r.next + 2) = Len(s)
         THEN [ok |-> TRUE, comps |-> r.comps, pre |-> NumVal(s, r.next + 2, Len(s))]
         ELSE InvalidVersion

Version(s) == VersionAfter(s, ParseRelease(s, 1))

is_prerelease(v) == v.pre >= 0

\* component i of a release, trailing components taken as 0
Comp(comps, i) == IF i <= Len(comps) THEN comps[i] ELSE 0

RECURSIVE ReleaseCmp(_, _, _)
\* -1, 0 or 1: the order of two releases from component i on
ReleaseCmp(a, b, i) ==
    IF i > Len(a) /\ i > Len(b) THEN 0
    ELSE IF Comp(a, i) < Comp(b, i) THEN -1
    ELSE IF Comp(a, i) > Comp(b, i) THEN 1
    ELSE ReleaseCmp(a, b, i + 1)
\* a > b by the releases alone: a release candidate is not told from its
\* final release
VersionGTBy_ReleaseOnly(a, b, c) == c = 1

\* a > b of two valid versions whose releases compare as c: releases first,
\* a release candidate before its final release
VersionGTBy(a, b, c) ==
    \/ c = 1
    \/ /\ c = 0
       /\ \/ a.pre = -1 /\ b.pre >= 0
          \/ a.pre >= 0 /\ b.pre >= 0 /\ a.pre > b.pre

VersionGT(a, b) == VersionGTBy(a, b, ReleaseCmp(a.comps, b.comps, 1))

\* ------------------------------------------------------------------------
\* _sanitize_github_version
\* ------------------------------------------------------------------------

RECURSIVE GroupsEnd(_, _)
\* the end of the greedy run of ([.][0-9]+) groups that follows index j
GroupsEnd(s, j) ==
    IF j + 2 <= Len(s) /\ s[j + 1] = "." /\ IsDigit(s[j + 2])
    THEN GroupsEnd(s, DigitsEnd(s, j + 2))
    ELSE j

\* the end of the match of [0-9]+([.][0-9]+)+(rc[0-9]?)? at i, 0 if none,
\* where the first digits end at d and the dotted groups at g
MatchEnd(s, i, d, g) ==
    IF d < i \/ g = d THEN 0
    ELSE IF g + 2 <= Len(s) /\ s[g + 1] = "r" /\ s[g + 2] = "c"
         THEN IF g + 3 <= Len(s) /\ IsDigit(s[g + 3]) THEN g + 3 ELSE g + 2
         ELSE g

MatchFrom(s, i, d) == MatchEnd(s, i, d, GroupsEnd(s, d))

MatchAt(s, i) == MatchFrom(s, i, DigitsEnd(s, i))

IsSpace(c) == c = " "

RECURSIVE LStrip(_)
LStrip(s) == IF s # <<>> /\ IsSpace(Head(s)) THEN LStrip(Tail(s)) ELSE s

RECURSIVE RStrip(_)
RStrip(s) ==
    IF s # <<>> /\ IsSpace(s[Len(s)]) THEN RStrip(SubSeq(s, 1, Len(s) - 1)) ELSE s

Strip(s) == RStrip(LStrip(s))

\* the least element of a non-empty set of numbers
Least(S) == CHOOSE k \in S : \A m \in S : k <= m
\* s.group(1) taken from the character after the start of the match
MatchedText_FromSecond(s, i) == SubSeq(s, i + 1, MatchAt(s, i))

MatchedText(s, i) == SubSeq(s, i, MatchAt(s, i))

\* re.search: the match that starts first, given the indices where one starts
SearchResult(version, starts) ==
    IF starts # {} THEN MatchedText(version, Least(starts)) ELSE Strip(version)

_sanitize_github_version(version) ==
    SearchResult(version, {i \in 1..Len(version) : MatchAt(version, i) > 0})

\* ------------------------------------------------------------------------
\* The remote release listing and _get_latest_deploy_tag
\* ------------------------------------------------------------------------

\* a top-level release-entry holding a formal release: its version label and
\* the labels (latest, prerelease) it carries
FormalRelease(text, labels) == [kind |-> "release", tags |-> <<text>>, labels |-> labels]

\* a top-level release-entry of class release-timeline-tags: the link texts
\* of the release-entry elements nested in it
TimelineTags(texts) == [kind |-> "tags", tags |-> texts, labels |-> {}]

ListingEntries ==
    { FormalRelease(RawV2, {"latest"}),
      FormalRelease(V1, {"latest"}),
      FormalRelease(V3rc, {"prerelease"}),
      TimelineTags(<<VBad, V1>>) }

MaxListing == 2

RECURSIVE SeqsUpTo(_, _)
SeqsUpTo(S, n) ==
    IF n = 0 THEN {<<>>}
    ELSE LET shorter == SeqsUpTo(S, n - 1) IN
         shorter \cup {Append(q, e) : q \in {x \in shorter : Len(x) = n - 1}, e \in S}

Listings == SeqsUpTo(ListingEntries, MaxListing)

\* 'not v.is_prerelease or pre' of a version that parsed
Acceptable(v, pre) == v.ok /\ (~is_prerelease(v) \/ pre)

RECURSIVE TagsScan(_, _, _, _)
\* one pass of the for loop over the entries nested in a
\* release-timeline-tags entry, the_version being the sanitized link text
TagsScanStep(tags, j, validate, pre, the_version) ==
    IF validate
    THEN IF Acceptable(Version(the_version), pre)
         THEN [set |-> TRUE, version |-> the_version, break_out |-> TRUE]
         ELSE TagsScan(tags, j + 1, validate, pre)
    ELSE [set |-> TRUE, version |-> the_version, break_out |-> FALSE]

\* the for loop from entry j on: whether it set version, to what, and break_out
TagsScan(tags, j, validate, pre) ==
    IF j > Len(tags) THEN [set |-> FALSE, version |-> NoneTag, break_out |-> FALSE]
    ELSE TagsScanStep(tags, j, validate, pre, _sanitize_github_version(tags[j]))

RECURSIVE ReleaseWalk(_, _, _, _, _)
\* the while loop after the for loop over a release-timeline-tags entry ended as t
AfterTags(listing, i, version, validate, pre, t) ==
    IF t.break_out THEN t.version
    ELSE ReleaseWalk(listing, i + 1, IF t.set THEN t.version ELSE version, validate, pre)

\* the while loop at a formal release whose label was found
AtLabelled(listing, i, version, validate, pre, the_version) ==
    IF ~validate THEN the_version
    ELSE IF Acceptable(Version(the_version), pre) THEN the_version
    ELSE ReleaseWalk(listing, i + 1, version, validate, pre)

\* the while loop at entry r = listing[i]
AtEntry(listing, i, version, validate, pre, r) ==
    IF r.kind = "tags"
    THEN AfterTags(listing, i, version, validate, pre, TagsScan(r.tags, 1, validate, pre))
    ELSE IF (IF pre THEN "prerelease" \in r.labels ELSE "latest" \in r.labels)
    THEN AtLabelled(listing, i, version, validate, pre, _sanitize_github_version(r.tags[1]))
    ELSE ReleaseWalk(listing, i + 1, version, validate, pre)

\* the while loop over the top-level release entries, from entry i on, with
\* the version found so far
ReleaseWalk(listing, i, version, validate, pre) ==
    IF i > Len(listing) THEN version
    ELSE AtEntry(listing, i, version, validate, pre, listing[i])

\* lines 1119-1133: what is returned for the version the loop ended with
ReturnedVersion(version, validate) ==
    IF version = NoneTag \/ version = EmptyTag THEN NoneTag
    ELSE IF validate /\ ~Version(version).ok THEN NoneTag
    ELSE version

\* the tag _get_latest_deploy_tag returns for a listing (format = 'version'),
\* NoneTag for None
_get_latest_deploy_tag(listing, validate, pre) ==
    ReturnedVersion(ReleaseWalk(listing, 1, NoneTag, validate, pre), validate)

\* ------------------------------------------------------------------------
\* State
\* ------------------------------------------------------------------------

VARIABLES
    pc,                \* the step the updater is at
    dev,               \* self._dev
    force_venv,        \* self._force_venv
    deploy_tag_arg,    \* the deploy_tag argument of __init__ (NoneTag: not given)
    cfgFile,           \* the user's config file: "missing", "corrupt" or "ok"
    cfg,               \* the JSON object the config file holds when it is "ok"
    fs,                \* the state of each install root on disk
    deploy_tag,        \* self._deploy_tag
    install_path,      \* self._install_path
    venv_info,         \* self._venv_info
    requirements_path, \* self._requirements_path
    tmp,               \* the temporary directory of _setup_deployment
    total_tries,       \* total_tries of _download_deployment_requirements
    valid_status,      \* valid_status of _download_deployment_requirements
    dep_result,        \* how _setup_deployment was left
    exc,               \* the exception that left __init__, "" if none
    stack,             \* the loads suspended in processEvents, outermost first
    hist               \* what the run did, for the properties

vars == <<pc, dev, force_venv, deploy_tag_arg, cfgFile, cfg, fs, deploy_tag,
          install_path, venv_info, requirements_path, tmp, total_tries,
          valid_status, dep_result, exc, stack, hist>>

args == <<dev, force_venv, deploy_tag_arg>>

store == <<cfgFile, cfg>>

fetch == <<tmp, total_tries, valid_status, requirements_path, dep_result>>

\* ------------------------------------------------------------------------
\* Paths and the disk
\* ------------------------------------------------------------------------

\* self._install_path = None
NoPath == "<None>"

\* dirname of sys.executable, the install path of dev mode
DevRoot == "/dev"

Roots == {"/p1", "/p2"}

\* an install root is "absent", or exists: "empty" (no project folder),
\* "old" (a project folder lacking Include, Lib or Scripts), "nopip" (those
\* three without Scripts/pip.exe) or "venv" (a complete environment)
RootStates == {"absent", "empty", "old", "nopip", "venv"}

os_path_isdir(disk, path) == path \in DOMAIN disk /\ disk[path] # "absent"

\* ------------------------------------------------------------------------
\* The config store: get_config_data and _set_config
\* ------------------------------------------------------------------------

EmptyCfg == [has |-> {}, install |-> "", tag |-> EmptyTag]

\* what json.load returns for a file of valid JSON that is not an object
\* (a list, a string, null): a value without get and without item assignment
NotObject == [has |-> {}, install |-> "", tag |-> EmptyTag, notdict |-> TRUE]

\* the exception get_config_data raises: open() is outside its try
get_config_data_raises(file) == IF file = "unreadable" THEN "IOError" ELSE ""

get_config_data(file, data) ==
    IF file = "ok" THEN data
    ELSE IF file = "notobject" THEN NotObject
    ELSE EmptyCfg

\* the outcome of _set_config on a file that is there: get_config_data raises
\* on an unreadable file, the item assignment on a value that is no dict
_set_config_raises(file) ==
    IF file = "unreadable" THEN "IOError"
    ELSE IF file = "notobject" THEN "TypeError"
    ELSE ""

\* config_data.get('tag', '')
ConfigTag(data) == IF "tag" \in data.has THEN data.tag ELSE EmptyTag

\* config_data.get(self.install_env_var, '')
ConfigInstall(data) == IF "install" \in data.has THEN data.install ELSE ""

\* a _set_config('tag', value) that writes nothing for an empty value
_set_config_tag_DropsEmpty(file, data, value) ==
    IF file = "missing" \/ _set_config_raises(file) # ""
    THEN [ok |-> FALSE, raises |-> _set_config_raises(file), file |-> file, data |-> data]
    ELSE LET config_data == get_config_data(file, data) IN
         [ok |-> TRUE, raises |-> "", file |-> "ok",
          data |-> IF value = EmptyTag THEN config_data
                   ELSE [config_data EXCEPT !.has = @ \cup {"tag"}, !.tag = value]]

\* _set_config('tag', value): the result and the file afterwards
_set_config_tag(file, data, value) ==
    IF file = "missing" \/ _set_config_raises(file) # ""
    THEN [ok |-> FALSE, raises |-> _set_config_raises(file), file |-> file, data |-> data]
    ELSE LET config_data == get_config_data(file, data) IN
         [ok |-> TRUE, raises |-> "", file |-> "ok",
          data |-> [config_data EXCEPT !.has = @ \cup {"tag"}, !.tag = value]]

\* a _set_config(self._install_env_var, value) that reports True and leaves
\* the entry as it was
_set_config_install_NoWrite(file, data, value) ==
    IF file = "missing" \/ _set_config_raises(file) # ""
    THEN [ok |-> FALSE, raises |-> _set_config_raises(file), file |-> file, data |-> data]
    ELSE [ok |-> TRUE, raises |-> "", file |-> "ok", data |-> get_config_data(file, data)]
\* a _set_config(self._install_env_var, value) that dumps {name: value} alone
_set_config_install_Overwrites(file, data, value) ==
    IF file = "missing" \/ _set_config_raises(file) # ""
    THEN [ok |-> FALSE, raises |-> _set_config_raises(file), file |-> file, data |-> data]
    ELSE [ok |-> TRUE, raises |-> "", file |-> "ok",
          data |-> [EmptyCfg EXCEPT !.has = {"install"}, !.install = value]]

\* _set_config(self._install_env_var, value)
_set_config_install(file, data, value) ==
    IF file = "missing" \/ _set_config_raises(file) # ""
    THEN [ok |-> FALSE, raises |-> _set_config_raises(file), file |-> file, data |-> data]
    ELSE LET config_data == get_config_data(file, data) IN
         [ok |-> TRUE, raises |-> "", file |-> "ok",
          data |-> [config_data EXCEPT !.has = @ \cup {"install"}, !.install = value]]

\* self._get_app_config(self._install_env_var): the packaged config.json
\* holds name, repository and splash only
_get_app_config_install == ""

\* ------------------------------------------------------------------------
\* Init
\* ------------------------------------------------------------------------

PersistedTags == {V1, V2, VBad}

NoVenvInfo == [root_path |-> NoPath, pip_exe |-> NoPath]

NoTmp == [exists |-> FALSE, first |-> "none", n |-> 0, extracted |-> FALSE]

NoHist == [phases |-> <<>>, cfg0 |-> EmptyCfg, file0 |-> "missing",
           latest |-> NoneTag, queried |-> FALSE, prompt |-> "none",
           url_tag |-> NoneTag, fetched |-> FALSE, scanned |-> FALSE,
           installed |-> FALSE, pip_exit |-> "none", failed_in |-> {},
           venv_tool |-> "none", dl_error |-> FALSE, first_match |-> NoPath,
           venv_dir0 |-> FALSE, venv_rm |-> "none",
           calls |-> 0, env0 |-> [fs |-> <<>>, info |-> NoVenvInfo],
           dialog |-> "none", releases |-> <<>>, uninstall_btn |-> FALSE,
           old_remove |-> "none",
           rmtree_old |-> FALSE,
           sel |-> [items |-> <<>>, current |-> -1, selected |-> -1, prompts |-> 0,
                    loads |-> 0, choices |-> 0,
                    last |-> [index |-> -1, text |-> <<>>, answer |-> "none"]],
           launch_btn |-> FALSE,
           launch |-> [result |-> "none", load |-> "none", tag |-> NoneTag],
           unzip |-> "none",
           san |-> [text |-> <<>>, once |-> <<>>, twice |-> <<>>],
           main |-> [given |-> {}, called |-> FALSE, constructed |-> FALSE,
                     project_name |-> "none", repository |-> "none",
                     splash |-> "none"],
           cat |-> [listing |-> <<>>, validate |-> TRUE, pre |-> FALSE,
                    version |-> NoneTag],
           prereq |-> [python |-> "ok", pip |-> "ok", virtualenv |-> "ok",
                       after |-> "ok",
                       out |-> [result |-> "none", dialog |-> "none",
                                pip_install |-> FALSE]],
           uninstall |-> [answer |-> "none", rmtree |-> "none", message |-> "none"],
           st |-> [op |-> "none", prev |-> "none", pair |-> EmptyCfg,
                   wrote |-> "none", data |-> EmptyCfg]]

Init ==
    /\ pc = "init"
    /\ dev \in BOOLEAN
    /\ force_venv \in BOOLEAN
    /\ deploy_tag_arg \in {NoneTag, V1}
    /\ cfgFile \in {"missing", "corrupt", "ok"}
    /\ \/ cfgFile # "ok" /\ cfg = EmptyCfg
       \/ /\ cfgFile = "ok"
          /\ \E has \in SUBSET {"install", "tag"}, p \in {"", "/p1"}, t \in PersistedTags :
                cfg = [has |-> has,
                       install |-> IF "install" \in has THEN p ELSE "",
                       tag |-> IF "tag" \in has THEN t ELSE EmptyTag]
    /\ \E s1 \in RootStates, s2 \in {"absent", "empty", "venv"} :
          fs = [r \in Roots \cup {DevRoot} |->
                   IF r = "/p1" THEN s1 ELSE IF r = "/p2" THEN s2 ELSE "empty"]
    /\ deploy_tag = NoneTag
    /\ install_path = NoPath
    /\ venv_info = NoVenvInfo
    /\ requirements_path = NoPath
    /\ tmp = NoTmp
    /\ total_tries = 0
    /\ valid_status = FALSE
    /\ dep_result = "none"
    /\ exc = ""
    /\ stack = <<>>
    /\ hist = [NoHist EXCEPT !.cfg0 = get_config_data(cfgFile, cfg), !.file0 = cfgFile]

\* ------------------------------------------------------------------------
\* The record of a run
\* ------------------------------------------------------------------------

InSeq(q, x) == \E i \in 1..Len(q) : q[i] = x

\* h with phase p entered (once)
Enter(h, p) == IF InSeq(h.phases, p) THEN h ELSE [h EXCEPT !.phases = Append(@, p)]

\* h with a failure of phase p
FailIn(h, p) == [h EXCEPT !.failed_in = @ \cup {p}]

\* ------------------------------------------------------------------------
\* __init__ up to the deploy tag
\* ------------------------------------------------------------------------

\* _setup_config: an absent config file is created holding {}
_setup_config(file) == IF file = "missing" THEN "ok" ELSE file
\* __init__ with line 89 always taking the '_get_deploy_tag()' branch: the
\* deploy_tag argument is ignored
Construct_IgnoresOverride ==
    /\ pc = "init"
    /\ cfgFile' = _setup_config(cfgFile)
    /\ cfg' = cfg
    /\ deploy_tag' = deploy_tag /\ pc' = "get_deploy_tag"
    /\ UNCHANGED <<args, stack, fs, install_path, venv_info, fetch, exc, hist>>

Construct ==
    /\ pc = "init"
    /\ cfgFile' = _setup_config(cfgFile)
    /\ cfg' = cfg
    /\ IF deploy_tag_arg # NoneTag
       THEN deploy_tag' = deploy_tag_arg /\ pc' = "check_setup"
       ELSE deploy_tag' = deploy_tag /\ pc' = "get_deploy_tag"
    /\ UNCHANGED <<args, stack, fs, install_path, venv_info, fetch, exc, hist>>

\* what _get_deploy_tag does with the persisted tag, the latest tag and the
\* user's answer to the upgrade question: the exception it raises ("" for
\* none), whether it asks, the tag it returns and whether it writes 'tag'
Choice(raises, asked, tag, write) ==
    [raises |-> raises, asked |-> asked, tag |-> tag, write |-> write]

\* lines 1010-1019 with the user's "No" taken for a "Yes" of the 'deploy_tag =
\* latest_deploy_tag' assignment: the latest tag is used although declined
CompareAndAsk_UsesLatest(persisted, latest, answer, deploy_tag_v, latest_tag_v) ==
    IF ~deploy_tag_v.ok THEN Choice("InvalidVersion", FALSE, persisted, FALSE)
    ELSE IF latest = NoneTag THEN Choice("TypeError", FALSE, persisted, FALSE)
    ELSE IF ~latest_tag_v.ok THEN Choice("InvalidVersion", FALSE, persisted, FALSE)
    ELSE IF VersionGT(latest_tag_v, deploy_tag_v)
         THEN Choice("", TRUE, latest, answer = "Yes")
         ELSE Choice("", FALSE, persisted, FALSE)
\* lines 1010-1019 without the '_set_config('tag', ...)' of line 1019: an
\* accepted upgrade is used for this run but not stored
CompareAndAsk_NoWrite(persisted, latest, answer, deploy_tag_v, latest_tag_v) ==
    IF ~deploy_tag_v.ok THEN Choice("InvalidVersion", FALSE, persisted, FALSE)
    ELSE IF latest = NoneTag THEN Choice("TypeError", FALSE, persisted, FALSE)
    ELSE IF ~latest_tag_v.ok THEN Choice("InvalidVersion", FALSE, persisted, FALSE)
    ELSE IF VersionGT(latest_tag_v, deploy_tag_v)
         THEN IF answer = "Yes" THEN Choice("", TRUE, latest, FALSE)
                                ELSE Choice("", TRUE, persisted, FALSE)
         ELSE Choice("", FALSE, persisted, FALSE)

\* lines 1010-1019, given the two parsed versions
CompareAndAsk(persisted, latest, answer, deploy_tag_v, latest_tag_v) ==
    IF ~deploy_tag_v.ok THEN Choice("InvalidVersion", FALSE, persisted, FALSE)
    ELSE IF latest = NoneTag THEN Choice("TypeError", FALSE, persisted, FALSE)
    ELSE IF ~latest_tag_v.ok THEN Choice("InvalidVersion", FALSE, persisted, FALSE)
    ELSE IF VersionGT(latest_tag_v, deploy_tag_v)
         THEN IF answer = "Yes" THEN Choice("", TRUE, latest, TRUE)
                                ELSE Choice("", TRUE, persisted, FALSE)
         ELSE Choice("", FALSE, persisted, FALSE)

DeployTagChoice(persisted, latest, answer) ==
    IF persisted = EmptyTag THEN Choice("", FALSE, latest, FALSE)
    ELSE CompareAndAsk(persisted, latest, answer, Version(persisted), Version(latest))

\* _get_deploy_tag once the latest tag is known, c being its choice
ApplyChoice(latest_deploy_tag, answer, c, w, h) ==
    /\ hist' = [(IF latest_deploy_tag = NoneTag \/ c.raises # ""
                 THEN FailIn(h, "ResolvingTag") ELSE h)
                EXCEPT !.prompt = IF c.asked THEN answer ELSE "none"]
    /\ IF c.raises # ""
       THEN /\ exc' = c.raises
            /\ pc' = "Failed"
            /\ UNCHANGED <<store, deploy_tag>>
       ELSE /\ deploy_tag' = c.tag
            /\ cfgFile' = IF c.write THEN w.file ELSE cfgFile
            /\ cfg' = IF c.write THEN w.data ELSE cfg
            /\ pc' = "check_setup"
            /\ exc' = exc

ResolveWith(latest_deploy_tag, answer) ==
    ApplyChoice(latest_deploy_tag, answer,
                DeployTagChoice(ConfigTag(get_config_data(cfgFile, cfg)),
                                latest_deploy_tag, answer),
                _set_config_tag(cfgFile, cfg, latest_deploy_tag),
                [Enter(hist, "ResolvingTag") EXCEPT !.queried = TRUE,
                                                    !.latest = latest_deploy_tag])

GetDeployTag ==
    /\ pc = "get_deploy_tag"
    /\ IF dev
       THEN /\ deploy_tag' = DevTag
            /\ pc' = "check_setup"
            /\ hist' = Enter(hist, "ResolvingTag")
            /\ UNCHANGED <<store, exc>>
       ELSE \/ \* requests.get raises
               /\ exc' = "ConnectionError"
               /\ pc' = "Failed"
               /\ hist' = FailIn([Enter(hist, "ResolvingTag") EXCEPT !.queried = TRUE],
                                 "ResolvingTag")
               /\ UNCHANGED <<store, deploy_tag>>
            \/ \E listing \in Listings, answer \in {"Yes", "No"} :
                 ResolveWith(_get_latest_deploy_tag(listing, TRUE, FALSE), answer)
    /\ UNCHANGED <<args, stack, fs, install_path, venv_info, fetch>>

\* ------------------------------------------------------------------------
\* _load: prerequisites and install path
\* ------------------------------------------------------------------------

\* the outcome of starting a tool and waiting for it: exit code 0, another
\* exit code, or Popen raising because the executable is not found
Probes == {"ok", "nonzero", "oserror"}

\* what _check_setup comes to: it returns True ("ok") or False ("false") or
\* lets an exception out ("raise"); the warning it showed ("docs": with the
\* documentation opened in the browser, "td": contact your project TD); and
\* whether it ran 'pip install virtualenv'
CheckResult(result, dialog, pip_install) ==
    [result |-> result, dialog |-> dialog, pip_install |-> pip_install]

\* _check_setup from the probes of python, pip and virtualenv and of
\* virtualenv after 'pip install virtualenv'
_check_setup(python, pip, virtualenv, virtualenv_after) ==
    IF python = "oserror" THEN CheckResult("raise", "none", FALSE)
    ELSE IF python = "nonzero" THEN CheckResult("false", "docs", FALSE)
    ELSE IF pip = "oserror" THEN CheckResult("raise", "none", FALSE)
    ELSE IF pip = "nonzero" THEN CheckResult("false", "docs", FALSE)
    ELSE IF virtualenv = "oserror" THEN CheckResult("raise", "none", FALSE)
    ELSE IF virtualenv = "ok" THEN CheckResult("ok", "none", FALSE)
    ELSE IF virtualenv_after = "oserror" THEN CheckResult("raise", "none", TRUE)
    ELSE IF virtualenv_after = "ok" THEN CheckResult("ok", "none", TRUE)
    ELSE CheckResult("false", "td", TRUE)

CheckSetup ==
    /\ pc = "check_setup"
    /\ \E python \in Probes, pip \in Probes, virtualenv \in Probes, after \in Probes :
          LET r == _check_setup(python, pip, virtualenv, after).result
              h == Enter(hist, "CheckingPrereqs")
          IN  /\ pc' = IF r = "ok" THEN "set_installation_path" ELSE "Failed"
              /\ exc' = IF r = "raise" THEN "OSError" ELSE exc
              /\ hist' = IF r = "ok" THEN h ELSE FailIn(h, "CheckingPrereqs")
    /\ UNCHANGED <<args, stack, store, fs, deploy_tag, install_path, venv_info, fetch>>

\* _get_installation_path
_get_installation_path(isdev, file, data) ==
    IF isdev THEN DevRoot ELSE ConfigInstall(get_config_data(file, data))
\* a test that takes every project folder for an old installation
old_installation_AnyProjectFolder(disk, path) ==
    os_path_isdir(disk, path) /\ disk[path] \in {"old", "nopip", "venv"}

\* the 'Remove older installations' test of _set_installation_path
old_installation(disk, path) == os_path_isdir(disk, path) /\ disk[path] = "old"

\* what the folder dialog can return: '' on cancel, or a folder
DialogChoices == {""} \cup Roots

SetInstallationPath ==
    /\ pc = "set_installation_path"
    /\ LET stored == _get_installation_path(dev, cfgFile, cfg)
           old == old_installation(fs, stored)
           h == [Enter(hist, "ResolvingInstallPath") EXCEPT !.rmtree_old = old]
       IN  \/ \* shutil.rmtree of the old installation raises
              /\ old
              /\ exc' = "OSError"
              /\ pc' = "Failed"
              /\ hist' = FailIn([h EXCEPT !.rmtree_old = FALSE], "ResolvingInstallPath")
              /\ UNCHANGED <<store, fs, install_path>>
           \/ LET disk == IF old THEN [fs EXCEPT ![stored] = "absent"] ELSE fs IN
              /\ fs' = disk
              /\ IF stored # "" /\ os_path_isdir(disk, stored)
                 THEN /\ install_path' = stored
                      /\ pc' = "init_tags_combo"
                      /\ hist' = h
                      /\ UNCHANGED <<store, exc>>
                 ELSE \E selected \in DialogChoices :
                        LET w == _set_config_install(cfgFile, cfg, selected)
                            hd == [h EXCEPT !.dialog = IF selected = "" THEN "cancel"
                                                       ELSE selected]
                        IN
                        IF selected = ""
                        THEN \* cancelled by the user
                             /\ pc' = "Failed"
                             /\ hist' = FailIn(hd, "ResolvingInstallPath")
                             /\ UNCHANGED <<store, install_path, exc>>
                        ELSE IF ~os_path_isdir(disk, selected)
                        THEN \* the message of line 807 calls str.foramt
                             /\ pc' = "Failed"
                             /\ exc' = "AttributeError"
                             /\ hist' = FailIn(hd, "ResolvingInstallPath")
                             /\ UNCHANGED <<store, install_path>>
                        ELSE /\ cfgFile' = w.file
                             /\ cfg' = w.data
                             /\ exc' = exc
                             /\ IF w.ok
                                THEN /\ install_path' = selected
                                     /\ pc' = "init_tags_combo"
                                     /\ hist' = hd
                                ELSE /\ install_path' = install_path
                                     /\ pc' = "Failed"
                                     /\ hist' = FailIn(hd, "ResolvingInstallPath")
    /\ UNCHANGED <<args, stack, deploy_tag, venv_info, fetch>>

\* ------------------------------------------------------------------------
\* _load: the tag selector and the virtual environment
\* ------------------------------------------------------------------------

RECURSIVE AllVersions(_, _, _)
\* the for loop of _get_all_releases over the link texts of the release
\* entries, from entry i on: each is sanitized and appended unless already in
\* all_versions
AllVersions(page, i, all_versions) ==
    IF i > Len(page) THEN all_versions
    ELSE LET the_version == _sanitize_github_version(page[i]) IN
         AllVersions(page, i + 1,
                     IF InSeq(all_versions, the_version) THEN all_versions
                     ELSE Append(all_versions, the_version))

\* _get_all_releases: ['DEV'] in dev mode, else the versions of the page
_get_all_releases(isdev, page) ==
    IF isdev THEN <<DevTag>> ELSE AllVersions(page, 1, <<>>)

\* the link texts of the releases page that _init_tags_combo is answered with
ReleasesPage == <<RawV2, V1, V1>>

\* _init_tags_combo with _get_all_releases lacking its 'if self._dev' return:
\* the releases page is asked for in dev mode too
InitTagsCombo_AlwaysQueries ==
    /\ pc = "init_tags_combo"
    /\ \/ /\ pc' = "setup_environment"
          /\ hist' = [hist EXCEPT !.queried = TRUE,
                                  !.releases = _get_all_releases(FALSE, ReleasesPage)]
          /\ exc' = exc
       \/ \* requests.get raises
          /\ pc' = "Failed"
          /\ exc' = "ConnectionError"
          /\ hist' = FailIn([hist EXCEPT !.queried = TRUE], "ResolvingTag")
    /\ UNCHANGED <<args, stack, store, fs, deploy_tag, install_path, venv_info, fetch>>

\* _init_tags_combo: _get_all_releases asks the releases page unless in dev
\* mode; hist.releases is the list the selector is filled with
InitTagsCombo ==
    /\ pc = "init_tags_combo"
    /\ IF dev
       THEN /\ pc' = "setup_environment"
            /\ hist' = [hist EXCEPT !.releases = _get_all_releases(TRUE, <<>>)]
            /\ exc' = exc
       ELSE \/ /\ pc' = "setup_environment"
               /\ hist' = [hist EXCEPT !.queried = TRUE,
                                       !.releases = _get_all_releases(FALSE, ReleasesPage)]
               /\ exc' = exc
            \/ \* requests.get raises
               /\ pc' = "Failed"
               /\ exc' = "ConnectionError"
               /\ hist' = FailIn([hist EXCEPT !.queried = TRUE], "ResolvingTag")
    /\ UNCHANGED <<args, stack, store, fs, deploy_tag, install_path, venv_info, fetch>>

\* os.path.isdir(self._get_venv_folder_path())
venv_folder_isdir(disk, isdev, root) ==
    IF isdev THEN os_path_isdir(disk, root)
    ELSE os_path_isdir(disk, root) /\ disk[root] \in {"old", "nopip", "venv"}

\* shutil.rmtree(venv_path) of _create_venv
RemoveVenvFolder(disk, isdev, root) ==
    [disk EXCEPT ![root] = IF isdev THEN "absent" ELSE "empty"]

\* what running 'virtualenv venv_path' can leave on disk
VirtualenvResults(disk, isdev, root, tool) ==
    IF isdev THEN {[disk EXCEPT ![root] = IF @ = "absent" THEN "empty" ELSE @]}
    ELSE IF tool = "ok" THEN {[disk EXCEPT ![root] = "venv"]}
    ELSE {disk, [disk EXCEPT ![root] = "nopip"]}

\* a _setup_environment that calls _create_venv(force=True) on every call
CreatesVenv_Always(force, disk, isdev, root) == TRUE

\* whether _setup_environment calls _create_venv(force=True)
CreatesVenv(force, disk, isdev, root) == force \/ ~venv_folder_isdir(disk, isdev, root)

\* whether _create_venv removes the folder first; venv_exists is the answer of
\* _check_venv_folder_exists, which tests the relative path '<project>_install'
RemovesFirst(venv_exists, disk, isdev, root) ==
    venv_exists /\ venv_folder_isdir(disk, isdev, root)

SetupEnvironment ==
    /\ pc = "setup_environment"
    /\ LET h == [Enter(hist, "Provisioning") EXCEPT
                    !.venv_dir0 = venv_folder_isdir(fs, dev, install_path),
                    !.venv_rm = "none", !.venv_tool = "none"]
           info == [root_path |-> install_path, pip_exe |-> install_path]
       IN  IF ~CreatesVenv(force_venv, fs, dev, install_path)
           THEN /\ venv_info' = info
                /\ pc' = "setup_deployment"
                /\ hist' = h
                /\ UNCHANGED <<fs, exc>>
           ELSE \E venv_exists \in BOOLEAN, rm \in {"ok", "raise"}, tool \in {"ok", "fail"} :
                  LET removes == RemovesFirst(venv_exists, fs, dev, install_path)
                      disk == IF removes THEN RemoveVenvFolder(fs, dev, install_path) ELSE fs
                  IN  IF removes /\ rm = "raise"
                      THEN /\ pc' = "Failed"
                           /\ exc' = "OSError"
                           /\ hist' = FailIn([h EXCEPT !.venv_rm = "raise"], "Provisioning")
                           /\ UNCHANGED <<fs, venv_info>>
                      ELSE /\ fs' \in VirtualenvResults(disk, dev, install_path, tool)
                           /\ venv_info' = info
                           /\ pc' = "setup_deployment"
                           /\ exc' = exc
                           /\ hist' = LET d == [h EXCEPT !.venv_tool = tool,
                                                 !.venv_rm = IF removes THEN "ok" ELSE "none"]
                                      IN  IF tool = "fail" THEN FailIn(d, "Provisioning") ELSE d
    /\ UNCHANGED <<args, stack, store, deploy_tag, install_path, fetch>>

\* ------------------------------------------------------------------------
\* _load: _setup_deployment
\* ------------------------------------------------------------------------

\* the limit of 'if total_tries > 10: break'
MaxTries == 10

\* a with block whose directory is removed only when no exception leaves it
TemporaryDirectory_exit_LeaksOnRaise(t, how) == IF how = "raise" THEN t ELSE NoTmp

\* the temporary directory after the with block is left; how is "ok" (the
\* block ran to its end), "false" (return False) or "raise" (an exception)
TemporaryDirectory_exit(t, how) == NoTmp

\* the variables after _setup_deployment leaves its with block
LeaveDeployment(how, error, h) ==
    /\ tmp' = TemporaryDirectory_exit(tmp, how)
    /\ dep_result' = how
    /\ exc' = IF how = "raise" THEN error ELSE exc
    /\ pc' = IF how = "ok" THEN "finish_load" ELSE "Failed"
    /\ hist' = h

SetupDeployment ==
    /\ pc = "setup_deployment"
    /\ IF venv_info = NoVenvInfo
       THEN /\ pc' = "Failed"
            /\ UNCHANGED <<fetch, exc, hist>>
       ELSE IF dev
       THEN /\ pc' = "finish_load"
            /\ UNCHANGED <<fetch, exc, hist>>
       ELSE LET h == [Enter(hist, "Fetching") EXCEPT !.url_tag = deploy_tag] IN
            \E response \in {"200", "404", "raise"} :
               IF response = "200"
               THEN /\ tmp' = [NoTmp EXCEPT !.exists = TRUE]
                    /\ total_tries' = 0
                    /\ valid_status' = FALSE
                    /\ pc' = "retry_loop"
                    /\ hist' = h
                    /\ UNCHANGED <<requirements_path, dep_result, exc>>
               ELSE /\ LeaveDeployment(IF response = "raise" THEN "raise" ELSE "false",
                                       "ConnectionError", FailIn(h, "Fetching"))
                    /\ UNCHANGED <<total_tries, valid_status, requirements_path>>
    /\ UNCHANGED <<args, stack, store, fs, deploy_tag, install_path, venv_info>>

\* the download file after _chunk_read has appended to it ('ab'): the first
\* bytes in it are a complete archive ("full") or not ("short")
AppendDownload(t, download) ==
    [t EXCEPT !.first = IF t.n = 0 THEN (IF download = "full" THEN "full" ELSE "short") ELSE @,
              !.n = @ + 1]

\* whether tarfile can read the download file
ValidArchive(t) == t.first = "full"

\* the while loop without its 'if total_tries > 10: break'
LoopRuns_NoLimit(status, tries) == ~status

\* whether the while loop of _download_deployment_requirements runs again
LoopRuns(status, tries) == ~status /\ ~(tries > MaxTries)
\* what _unzip_file did with the download file: it returned True ("ok") or it
\* raised ("failed"), because tarfile could not read the file or because
\* extractall failed
Extracted(t, unzip) == IF ValidArchive(t) /\ unzip = "ok" THEN "ok" ELSE "failed"

\* one pass of the while loop whose 'except Exception' sets valid_unzip to True
Attempt_UnzipErrorPasses(at) ==
    /\ pc = at
    /\ LoopRuns(valid_status, total_tries)
    /\ \E download \in {"full", "short", "raise"}, unzip \in {"ok", "raise"} :
          LET t == AppendDownload(tmp, download)
              h == [hist EXCEPT !.fetched = TRUE] IN
          IF download = "raise"
          THEN \* _download_file re-raises: nothing catches it
               /\ LeaveDeployment("raise", "Exception",
                                  FailIn([h EXCEPT !.dl_error = TRUE], "Fetching"))
               /\ total_tries' = total_tries
               /\ valid_status' = valid_status
          ELSE /\ valid_status' = TRUE
               /\ tmp' = [t EXCEPT !.extracted = @ \/ valid_status']
               /\ total_tries' = total_tries + 1
               /\ hist' = [h EXCEPT !.unzip = Extracted(t, unzip)]
               /\ pc' = "retry_loop"
               /\ UNCHANGED <<dep_result, exc>>
    /\ UNCHANGED <<args, stack, store, fs, deploy_tag, install_path, venv_info, requirements_path>>

\* one pass of the while loop, _try_download_unizip_deployment_requirements,
\* taken from the step 'at'
Attempt(at) ==
    /\ pc = at
    /\ LoopRuns(valid_status, total_tries)
    /\ \E download \in {"full", "short", "raise"}, unzip \in {"ok", "raise"} :
          LET t == AppendDownload(tmp, download)
              h == [hist EXCEPT !.fetched = TRUE] IN
          IF download = "raise"
          THEN \* _download_file re-raises: nothing catches it
               /\ LeaveDeployment("raise", "Exception",
                                  FailIn([h EXCEPT !.dl_error = TRUE], "Fetching"))
               /\ total_tries' = total_tries
               /\ valid_status' = valid_status
          ELSE /\ valid_status' = (ValidArchive(t) /\ unzip = "ok")
               /\ tmp' = [t EXCEPT !.extracted = @ \/ valid_status']
               /\ total_tries' = total_tries + 1
               /\ hist' = [h EXCEPT !.unzip = Extracted(t, unzip)]
               /\ pc' = "retry_loop"
               /\ UNCHANGED <<dep_result, exc>>
    /\ UNCHANGED <<args, stack, store, fs, deploy_tag, install_path, venv_info, requirements_path>>

\* one pass of the while loop, start to end
TryDownloadUnzip == Attempt("retry_loop")

\* the most directories os.walk visits in the extracted archive
MaxWalk == 2

\* what os.walk(dirname) yields: for each directory visited, in walk order,
\* whether its files hold one named self._requirements_file_name
Walks == SeqsUpTo(BOOLEAN, MaxWalk)

\* os.path.join(root, name) for the i-th directory of the walk
WalkPath(i) == <<"d1/requirements.txt", "d2/requirements.txt",
                 "d3/requirements.txt", "d4/requirements.txt">>[i]

\* the first file of the walk, from the i-th directory on, that is named like
\* the manifest: what the run records of the archive it was given
RECURSIVE FirstMatchFrom(_, _)
FirstMatchFrom(walk, i) ==
    IF i > Len(walk) THEN NoPath
    ELSE IF walk[i] THEN WalkPath(i) ELSE FirstMatchFrom(walk, i + 1)

\* the for loops of lines 1296-1300 from the i-th directory on: the inner
\* break leaves the files of one directory only, the walk goes on
RECURSIVE ScanFrom(_, _, _)
ScanFrom(walk, i, requirement_path) ==
    IF i > Len(walk) THEN requirement_path
    ELSE ScanFrom(walk, i + 1, IF walk[i] THEN WalkPath(i) ELSE requirement_path)

\* requirement_path after the walk
requirement_path(walk) == ScanFrom(walk, 1, NoPath)

\* after the while loop: the search of the requirements file
ScanRequirements ==
    /\ pc = "retry_loop"
    /\ ~LoopRuns(valid_status, total_tries)
    /\ IF ~valid_status
       THEN /\ LeaveDeployment("false", "", FailIn(hist, "Fetching"))
            /\ UNCHANGED requirements_path
       ELSE \E walk \in Walks :
              LET h == [hist EXCEPT !.scanned = TRUE,
                                    !.first_match = FirstMatchFrom(walk, 1)] IN
              IF requirement_path(walk) # NoPath
              THEN /\ requirements_path' = requirement_path(walk)
                   /\ pc' = "install_requirements"
                   /\ hist' = h
                   /\ UNCHANGED <<tmp, dep_result, exc>>
              ELSE /\ LeaveDeployment("false", "", FailIn(h, "Fetching"))
                   /\ UNCHANGED requirements_path
    /\ UNCHANGED <<args, stack, store, fs, deploy_tag, install_path, venv_info,
                   total_tries, valid_status>>

\* os.path.isfile(pip_exe)
pip_exe_isfile(disk, info) == os_path_isdir(disk, info.pip_exe) /\ disk[info.pip_exe] = "venv"

\* the value _install_deployment_requirements returns when pip was started
\* and ended with the given outcome
InstallResult(pip) == IF pip = "oserror" THEN "raise" ELSE "ok"

InstallRequirements ==
    /\ pc = "install_requirements"
    /\ LET h == Enter(hist, "Installing") IN
       IF venv_info = NoVenvInfo \/ requirements_path = NoPath \/ ~tmp.exists
          \/ ~pip_exe_isfile(fs, venv_info)
       THEN LeaveDeployment("false", "", FailIn(h, "Installing"))
       ELSE \E pip \in Probes :
              LeaveDeployment(InstallResult(pip), "Exception",
                              IF pip = "ok"
                              THEN [h EXCEPT !.installed = TRUE, !.pip_exit = pip]
                              ELSE FailIn([h EXCEPT !.installed = (pip # "oserror"),
                                                    !.pip_exit = pip], "Installing"))
    /\ UNCHANGED <<args, stack, store, fs, deploy_tag, install_path, venv_info,
                   total_tries, valid_status, requirements_path>>
\* is_installed of _load: the Launch button is made visible, and nothing
\* hides it again
ShowsLaunch(disk, path_install) == path_install # "" /\ os_path_isdir(disk, path_install)

\* lines 705-711: the Uninstall button is made visible when the installation
\* path is a folder and the run is not dev
ShowsUninstall(isdev, disk, path_install) ==
    path_install # "" /\ os_path_isdir(disk, path_install) /\ ~isdev

\* the rest of _load: _setup_artella, the stored-path check and the buttons
FinishLoad ==
    /\ pc = "finish_load"
    /\ \/ \* _setup_artella raises (no Artella folder on this platform)
          /\ pc' = "Failed"
          /\ exc' = "Exception"
          /\ UNCHANGED <<store, hist>>
       \/ LET stored_path == _get_app_config_install
              w == _set_config_install(cfgFile, cfg, "")
              clear == stored_path # "" /\ ~os_path_isdir(fs, stored_path)
          IN  /\ cfgFile' = IF clear THEN w.file ELSE cfgFile
              /\ cfg' = IF clear THEN w.data ELSE cfg
              /\ pc' = "Ready"
              /\ exc' = exc
              /\ hist' = [Enter(hist, "Ready") EXCEPT
                    !.uninstall_btn =
                       @ \/ ShowsUninstall(dev, fs, _get_installation_path(dev, cfgFile', cfg')),
                    !.launch_btn =
                       @ \/ ShowsLaunch(fs, _get_installation_path(dev, cfgFile', cfg'))]
    /\ UNCHANGED <<args, stack, fs, deploy_tag, install_path, venv_info, fetch>>

\* ------------------------------------------------------------------------
\* _on_uninstall: the Uninstall button, shown once _load found the
\* installation in a run that is not dev
\* ------------------------------------------------------------------------

\* how shutil.rmtree(d, ignore_errors=True) can end: the folder removed, some
\* of it removed, or nothing removed
RmtreeOutcomes == {"removed", "partial", "untouched"}

\* the disk after shutil.rmtree(d, ignore_errors=True) of the project folder
rmtree_ignore_errors(disk, root, outcome) ==
    IF ~venv_folder_isdir(disk, FALSE, root) THEN disk
    ELSE IF outcome = "removed" THEN [disk EXCEPT ![root] = "empty"]
    ELSE IF outcome = "partial" THEN [disk EXCEPT ![root] = "old"]
    ELSE disk

\* whether the try block of _on_uninstall is left by an exception of the
\* removal: ignore_errors=True swallows every error of rmtree
rmtree_raises(outcome) == FALSE

\* a store that is cleared only when the folder was removed
UninstallStore_OnlyWhenRemoved(file, data, outcome) ==
    IF outcome = "removed" THEN _set_config_install(file, data, "")
    ELSE [ok |-> TRUE, raises |-> "", file |-> file, data |-> data]

\* self._set_config(self._install_env_var, '') of the try block and of the
\* except block
UninstallStore(file, data, outcome) == _set_config_install(file, data, "")

\* the message box shown after the removal
UninstallMessage(outcome) == IF rmtree_raises(outcome) THEN "manual" ELSE "success"

OnUninstall ==
    /\ pc = "Ready"
    /\ stack = <<>>
    /\ hist.uninstall_btn
    /\ ~dev
    /\ ConfigInstall(get_config_data(cfgFile, cfg)) # ""
    /\ os_path_isdir(fs, ConfigInstall(get_config_data(cfgFile, cfg)))
    /\ \E answer \in {"Yes", "No"}, outcome \in RmtreeOutcomes :
          IF answer = "No"
          THEN /\ hist' = [hist EXCEPT !.uninstall.answer = "No"]
               /\ UNCHANGED <<pc, store, fs>>
          ELSE /\ fs' = rmtree_ignore_errors(fs, ConfigInstall(get_config_data(cfgFile, cfg)),
                                             outcome)
               /\ cfgFile' = UninstallStore(cfgFile, cfg, outcome).file
               /\ cfg' = UninstallStore(cfgFile, cfg, outcome).data
               /\ hist' = [hist EXCEPT !.uninstall =
                              [answer |-> "Yes", rmtree |-> outcome,
                               message |-> UninstallMessage(outcome)]]
               /\ pc' = IF rmtree_raises(outcome) THEN "Ready" ELSE "Quit"
    /\ UNCHANGED <<args, stack, deploy_tag, install_path, venv_info, fetch, exc>>

Next ==
    \/ Construct
    \/ GetDeployTag
    \/ CheckSetup
    \/ SetInstallationPath
    \/ InitTagsCombo
    \/ SetupEnvironment
    \/ SetupDeployment
    \/ TryDownloadUnzip
    \/ ScanRequirements
    \/ InstallRequirements
    \/ FinishLoad
    \/ OnUninstall

Spec == Init /\ [][Next]_vars

\* ------------------------------------------------------------------------
\* _setup_environment called again: _on_selected_tag runs _load a second time
\* (line 447) with the install path, the mode and the force flag unchanged
\* ------------------------------------------------------------------------

\* the most times _load is run again
MaxReloads == 2

\* the updater about to run _setup_environment, the install path resolved
EnvInit ==
    /\ pc = "setup_environment"
    /\ dev \in BOOLEAN
    /\ force_venv \in BOOLEAN
    /\ deploy_tag_arg = NoneTag
    /\ \E s1 \in RootStates, s2 \in {"absent", "empty", "venv"} :
          fs = [r \in Roots \cup {DevRoot} |->
                   IF r = "/p1" THEN s1 ELSE IF r = "/p2" THEN s2 ELSE "empty"]
    /\ install_path \in {r \in Roots \cup {DevRoot} : (r = DevRoot) = dev}
    /\ os_path_isdir(fs, install_path)
    /\ cfgFile = "ok"
    /\ cfg = IF dev THEN EmptyCfg
             ELSE [has |-> {"install"}, install |-> install_path, tag |-> EmptyTag]
    /\ deploy_tag = IF dev THEN DevTag ELSE V1
    /\ venv_info = NoVenvInfo
    /\ requirements_path = NoPath
    /\ tmp = NoTmp
    /\ total_tries = 0
    /\ valid_status = FALSE
    /\ dep_result = "none"
    /\ exc = ""
    /\ stack = <<>>
    /\ hist = [NoHist EXCEPT !.cfg0 = cfg, !.file0 = cfgFile]

\* _load reaches _setup_environment again
LoadAgain ==
    /\ pc = "setup_deployment"
    /\ hist.calls < MaxReloads
    /\ pc' = "setup_environment"
    /\ hist' = [hist EXCEPT !.calls = @ + 1,
                            !.env0 = [fs |-> fs, info |-> venv_info]]
    /\ UNCHANGED <<args, stack, store, fs, deploy_tag, install_path, venv_info, fetch, exc>>

EnvNext ==
    \/ SetupEnvironment
    \/ LoadAgain

EnvSpec == EnvInit /\ [][EnvNext]_vars

\* ------------------------------------------------------------------------
\* The config store on its own: any sequence of _setup_config, _set_config
\* and get_config_data calls on any config file
\* ------------------------------------------------------------------------

\* the config file: absent, unparseable text, valid JSON that is no object,
\* a file open() cannot read, or a JSON object
StoreFiles == {"missing", "corrupt", "notobject", "unreadable", "ok"}

StoreInit ==
    /\ pc = "store"
    /\ dev = FALSE
    /\ force_venv = FALSE
    /\ deploy_tag_arg = NoneTag
    /\ cfgFile \in StoreFiles
    /\ \/ cfgFile # "ok" /\ cfg = EmptyCfg
       \/ /\ cfgFile = "ok"
          /\ \E has \in SUBSET {"install", "tag"}, p \in {"", "/p1"}, t \in PersistedTags :
                cfg = [has |-> has,
                       install |-> IF "install" \in has THEN p ELSE "",
                       tag |-> IF "tag" \in has THEN t ELSE EmptyTag]
    /\ fs = [r \in Roots \cup {DevRoot} |-> "empty"]
    /\ deploy_tag = NoneTag
    /\ install_path = NoPath
    /\ venv_info = NoVenvInfo
    /\ requirements_path = NoPath
    /\ tmp = NoTmp
    /\ total_tries = 0
    /\ valid_status = FALSE
    /\ dep_result = "none"
    /\ exc = ""
    /\ stack = <<>>
    /\ hist = [NoHist EXCEPT !.cfg0 = get_config_data(cfgFile, cfg), !.file0 = cfgFile]

\* the record {key: value}
Pair(key, install, tag) ==
    [has |-> {key}, install |-> IF key = "install" THEN install ELSE "",
     tag |-> IF key = "tag" THEN tag ELSE EmptyTag]

\* the store after _set_config returned or raised w
StoreWritten(w, pair) ==
    /\ cfgFile' = w.file
    /\ cfg' = w.data
    /\ exc' = w.raises
    /\ pc' = IF w.raises # "" THEN "Failed" ELSE "store"
    /\ hist' = [hist EXCEPT !.st = [@ EXCEPT !.op = "write", !.prev = hist.st.op,
                    !.pair = pair,
                    !.wrote = IF w.raises # "" THEN "raise"
                              ELSE IF w.ok THEN "true" ELSE "false"]]

\* _set_config(config_name, config_value)
StoreWrite ==
    /\ pc = "store"
    /\ \/ \E value \in {"", "/p1", "/p2"} :
            StoreWritten(_set_config_install(cfgFile, cfg, value), Pair("install", value, EmptyTag))
       \/ \E value \in {EmptyTag, V1, V2} :
            StoreWritten(_set_config_tag(cfgFile, cfg, value), Pair("tag", "", value))
    /\ UNCHANGED <<args, stack, fs, deploy_tag, install_path, venv_info, fetch>>

\* get_config_data()
StoreRead ==
    /\ pc = "store"
    /\ exc' = get_config_data_raises(cfgFile)
    /\ pc' = IF get_config_data_raises(cfgFile) # "" THEN "Failed" ELSE "store"
    /\ hist' = [hist EXCEPT !.st = [@ EXCEPT !.op = "read", !.prev = hist.st.op,
                    !.data = IF get_config_data_raises(cfgFile) # "" THEN @
                             ELSE get_config_data(cfgFile, cfg)]]
    /\ UNCHANGED <<args, stack, store, fs, deploy_tag, install_path, venv_info, fetch>>

\* _setup_config()
StoreSetup ==
    /\ pc = "store"
    /\ cfgFile' = _setup_config(cfgFile)
    /\ cfg' = cfg
    /\ hist' = [hist EXCEPT !.st = [@ EXCEPT !.op = "setup", !.prev = hist.st.op]]
    /\ UNCHANGED <<pc, args, stack, fs, deploy_tag, install_path, venv_info, fetch, exc>>

StoreNext ==
    \/ StoreWrite
    \/ StoreRead
    \/ StoreSetup

StoreSpec == StoreInit /\ [][StoreNext]_vars

\* ------------------------------------------------------------------------
\* _get_deploy_tag on its own: a tag is persisted and the releases page shows
\* one formal release
\* ------------------------------------------------------------------------

T120 == <<"1", ".", "2", ".", "0">>

T1100 == <<"1", ".", "1", "0", ".", "0">>

T200rc1 == <<"2", ".", "0", ".", "0", "r", "c", "1">>

T200 == <<"2", ".", "0", ".", "0">>

\* the tags persisted and released in this specification
TagPool == {V1, T120, T1100, T200rc1, T200, V2}

\* the releases page: empty, or one formal release labelled latest
TagListings == {<<>>} \cup {<<FormalRelease(t, {"latest"})>> : t \in TagPool}

\* the updater about to call _get_deploy_tag (no deploy_tag argument, not in
\* dev mode), the config file holding a tag
TagInit ==
    /\ pc = "get_deploy_tag"
    /\ dev = FALSE
    /\ force_venv = FALSE
    /\ deploy_tag_arg = NoneTag
    /\ cfgFile = "ok"
    /\ \E p \in {"", "/p1"}, t \in TagPool :
          cfg = [has |-> IF p = "" THEN {"tag"} ELSE {"install", "tag"},
                 install |-> p, tag |-> t]
    /\ fs = [r \in Roots \cup {DevRoot} |-> "empty"]
    /\ deploy_tag = NoneTag
    /\ install_path = NoPath
    /\ venv_info = NoVenvInfo
    /\ requirements_path = NoPath
    /\ tmp = NoTmp
    /\ total_tries = 0
    /\ valid_status = FALSE
    /\ dep_result = "none"
    /\ exc = ""
    /\ stack = <<>>
    /\ hist = [NoHist EXCEPT !.cfg0 = get_config_data(cfgFile, cfg), !.file0 = cfgFile]

\* _get_deploy_tag when requests.get answers with a page of TagListings
ResolveTag ==
    /\ pc = "get_deploy_tag"
    /\ \E listing \in TagListings, answer \in {"Yes", "No"} :
          ResolveWith(_get_latest_deploy_tag(listing, TRUE, FALSE), answer)
    /\ UNCHANGED <<args, stack, fs, install_path, venv_info, fetch>>

TagNext ==
    \/ ResolveTag
    \/ CheckSetup

TagSpec == TagInit /\ [][TagNext]_vars

\* ------------------------------------------------------------------------
\* _get_latest_deploy_tag on its own: every page of up to MaxListing release
\* entries, with validate and pre either way
\* ------------------------------------------------------------------------

\* the release entries a page of this specification is made of
CatalogEntries ==
    ListingEntries \cup
    { FormalRelease(V1, {}),
      FormalRelease(VBad, {"latest"}),
      TimelineTags(<<V2, V1>>),
      TimelineTags(<<V3rc>>) }

CatalogListings == SeqsUpTo(CatalogEntries, MaxListing)

\* the updater about to call _get_latest_deploy_tag(validate=..., pre=...),
\* requests.get answering with the page hist.cat.listing
CatalogInit ==
    /\ pc = "catalog"
    /\ dev = FALSE
    /\ force_venv = FALSE
    /\ deploy_tag_arg = NoneTag
    /\ cfgFile = "ok"
    /\ cfg = EmptyCfg
    /\ fs = [r \in Roots \cup {DevRoot} |-> "empty"]
    /\ deploy_tag = NoneTag
    /\ install_path = NoPath
    /\ venv_info = NoVenvInfo
    /\ requirements_path = NoPath
    /\ tmp = NoTmp
    /\ total_tries = 0
    /\ valid_status = FALSE
    /\ dep_result = "none"
    /\ exc = ""
    /\ stack = <<>>
    /\ \E listing \in CatalogListings, validate \in BOOLEAN, pre \in BOOLEAN :
          hist = [NoHist EXCEPT !.cat = [listing |-> listing, validate |-> validate,
                                         pre |-> pre, version |-> NoneTag]]

\* the call returns: hist.cat.version is the tag returned (NoneTag for None)
CatalogQuery ==
    /\ pc = "catalog"
    /\ pc' = "catalog_done"
    /\ hist' = [hist EXCEPT !.cat.version =
                   _get_latest_deploy_tag(hist.cat.listing, hist.cat.validate, hist.cat.pre)]
    /\ UNCHANGED <<args, stack, store, fs, deploy_tag, install_path, venv_info, fetch, exc>>

CatalogNext == CatalogQuery

CatalogSpec == CatalogInit /\ [][CatalogNext]_vars

\* ------------------------------------------------------------------------
\* _check_setup on its own: every outcome of the three probes and of the
\* virtualenv probe after 'pip install virtualenv'
\* ------------------------------------------------------------------------

\* the updater about to call _check_setup, hist.prereq holding what the
\* probes will answer
PrereqInit ==
    /\ pc = "check_setup"
    /\ dev \in BOOLEAN
    /\ force_venv = FALSE
    /\ deploy_tag_arg = NoneTag
    /\ cfgFile = "ok"
    /\ cfg = EmptyCfg
    /\ fs = [r \in Roots \cup {DevRoot} |-> "empty"]
    /\ deploy_tag = IF dev THEN DevTag ELSE V1
    /\ install_path = NoPath
    /\ venv_info = NoVenvInfo
    /\ requirements_path = NoPath
    /\ tmp = NoTmp
    /\ total_tries = 0
    /\ valid_status = FALSE
    /\ dep_result = "none"
    /\ exc = ""
    /\ stack = <<>>
    /\ \E python \in Probes, pip \in Probes, virtualenv \in Probes, after \in Probes :
          hist = [NoHist EXCEPT !.prereq.python = python, !.prereq.pip = pip,
                                !.prereq.virtualenv = virtualenv,
                                !.prereq.after = after]

\* the call returns or raises: hist.prereq.out is what it came to
PrereqCheck ==
    /\ pc = "check_setup"
    /\ LET out == _check_setup(hist.prereq.python, hist.prereq.pip,
                              hist.prereq.virtualenv, hist.prereq.after)
       IN  /\ pc' = IF out.result = "ok" THEN "set_installation_path" ELSE "Failed"
           /\ exc' = IF out.result = "raise" THEN "OSError" ELSE exc
           /\ hist' = [hist EXCEPT !.prereq.out = out]
    /\ UNCHANGED <<args, stack, store, fs, deploy_tag, install_path, venv_info, fetch>>

PrereqNext == PrereqCheck

PrereqSpec == PrereqInit /\ [][PrereqNext]_vars

\* ------------------------------------------------------------------------
\* The handlers that processEvents can run while _load is under way:
\* _set_splash_text (lines 249-251) yields to the event loop at every progress
\* text and at every chunk report of a download
\* ------------------------------------------------------------------------

\* the most loads suspended in processEvents at once
MaxNested == 1

\* where a load is inside processEvents: at the progress text that begins
\* _download_deployment_requirements (line 1266), between two chunk reports
\* of a download (line 1394) and at the progress text of
\* _install_deployment_requirements (line 1329)
YieldPoints == {"setup_deployment", "downloading", "install_requirements"}

\* the event loop of app.exec_() is running and no load is under way
Idle == pc = "Ready" /\ stack = <<>>

\* a load under way is inside processEvents
AtYield == pc \in YieldPoints

\* the locals of the load that is inside processEvents
Frame ==
    [pc |-> pc, tmp |-> tmp, total_tries |-> total_tries,
     valid_status |-> valid_status, dep_result |-> dep_result]

\* the items of the tag selector other than the deploy tag
OtherItems == {hist.releases[i] : i \in 1..Len(hist.releases)} \ {deploy_tag, EmptyTag}

\* the updater entering _load for the first time, with the tag 1.0 and the
\* install path of a complete environment stored
ReentryInit ==
    /\ pc = "check_setup"
    /\ dev = FALSE
    /\ force_venv = FALSE
    /\ deploy_tag_arg = NoneTag
    /\ cfgFile = "ok"
    /\ cfg = [has |-> {"install", "tag"}, install |-> "/p1", tag |-> V1]
    /\ fs = [r \in Roots \cup {DevRoot} |->
                IF r = "/p1" THEN "venv" ELSE IF r = "/p2" THEN "absent" ELSE "empty"]
    /\ deploy_tag = V1
    /\ install_path = NoPath
    /\ venv_info = NoVenvInfo
    /\ requirements_path = NoPath
    /\ tmp = NoTmp
    /\ total_tries = 0
    /\ valid_status = FALSE
    /\ dep_result = "none"
    /\ exc = ""
    /\ stack = <<>>
    /\ hist = [NoHist EXCEPT !.cfg0 = get_config_data(cfgFile, cfg), !.file0 = cfgFile]

\* _download_file has read and reported its first chunk: _chunk_report calls
\* _set_splash_text
BeginDownload ==
    /\ pc = "retry_loop"
    /\ LoopRuns(valid_status, total_tries)
    /\ pc' = "downloading"
    /\ UNCHANGED <<args, stack, store, fs, deploy_tag, install_path, venv_info, fetch, exc,
                   hist>>

\* the rest of the pass of the while loop
FinishDownload == Attempt("downloading")

\* _on_selected_tag: currentIndexChanged of the tag selector, which is enabled
\* when not dev and whose signals are blocked only while _init_tags_combo
\* fills it. On Yes it sets the deploy tag, writes it and calls _load; a load
\* that was inside processEvents stays suspended until that _load returns.
OnSelectedTag ==
    /\ ~dev
    /\ Idle \/ (AtYield /\ Len(stack) < MaxNested)
    /\ hist.calls < MaxReloads
    /\ \E new_tag \in OtherItems, answer \in {"Yes", "No"} :
          LET w == _set_config_tag(cfgFile, cfg, new_tag) IN
          IF answer = "No"
          THEN UNCHANGED <<pc, store, deploy_tag, fetch, stack, exc, hist>>
          ELSE /\ deploy_tag' = new_tag
               /\ cfgFile' = w.file
               /\ cfg' = w.data
               /\ stack' = IF Idle THEN stack ELSE Append(stack, Frame)
               /\ pc' = "check_setup"
               /\ tmp' = NoTmp
               /\ total_tries' = 0
               /\ valid_status' = FALSE
               /\ dep_result' = "none"
               /\ hist' = [hist EXCEPT !.calls = @ + 1]
               /\ UNCHANGED <<requirements_path, exc>>
    /\ UNCHANGED <<args, fs, install_path, venv_info>>

\* the _load called by _on_selected_tag is over (it returned, or its exception
\* was reported by the slot): processEvents returns to the suspended load
HandlerReturns ==
    /\ stack # <<>>
    /\ pc \in {"Ready", "Failed"}
    /\ pc' = stack[Len(stack)].pc
    /\ tmp' = stack[Len(stack)].tmp
    /\ total_tries' = stack[Len(stack)].total_tries
    /\ valid_status' = stack[Len(stack)].valid_status
    /\ dep_result' = stack[Len(stack)].dep_result
    /\ stack' = SubSeq(stack, 1, Len(stack) - 1)
    /\ UNCHANGED <<args, store, fs, deploy_tag, install_path, venv_info, requirements_path,
                   exc, hist>>

\* _on_uninstall run by processEvents while a load is under way: the button
\* stays visible once a load has shown it. QApplication.quit() only ends
\* app.exec_(), so the load goes on when the handler returns.
UninstallWhileLoading ==
    /\ AtYield
    /\ hist.uninstall_btn
    /\ ConfigInstall(get_config_data(cfgFile, cfg)) # ""
    /\ os_path_isdir(fs, ConfigInstall(get_config_data(cfgFile, cfg)))
    /\ \E answer \in {"Yes", "No"}, outcome \in RmtreeOutcomes :
          IF answer = "No"
          THEN /\ hist' = [hist EXCEPT !.uninstall.answer = "No"]
               /\ UNCHANGED <<store, fs>>
          ELSE /\ fs' = rmtree_ignore_errors(fs, ConfigInstall(get_config_data(cfgFile, cfg)),
                                             outcome)
               /\ cfgFile' = UninstallStore(cfgFile, cfg, outcome).file
               /\ cfg' = UninstallStore(cfgFile, cfg, outcome).data
               /\ hist' = [hist EXCEPT !.uninstall =
                              [answer |-> "Yes", rmtree |-> outcome,
                               message |-> UninstallMessage(outcome)]]
    /\ UNCHANGED <<pc, args, stack, deploy_tag, install_path, venv_info, fetch, exc>>

ReentryNext ==
    \/ CheckSetup
    \/ SetInstallationPath
    \/ InitTagsCombo
    \/ SetupEnvironment
    \/ SetupDeployment
    \/ BeginDownload
    \/ FinishDownload
    \/ ScanRequirements
    \/ InstallRequirements
    \/ FinishLoad
    \/ OnUninstall
    \/ OnSelectedTag
    \/ HandlerReturns
    \/ UninstallWhileLoading

ReentrySpec == ReentryInit /\ [][ReentryNext]_vars

\* ------------------------------------------------------------------------
\* _setup_config on its own: the config file of an older version of the app
\* may exist, and removing it or creating the new file may fail
\* ------------------------------------------------------------------------

\* old_config_path of _clean_old_config
OldConfig == "/old/.config"

\* the updater about to call _setup_config (line 77)
LegacyInit ==
    /\ pc = "init"
    /\ dev \in BOOLEAN
    /\ force_venv = FALSE
    /\ deploy_tag_arg = NoneTag
    /\ cfgFile \in {"missing", "corrupt", "ok"}
    /\ \/ cfgFile # "ok" /\ cfg = EmptyCfg
       \/ /\ cfgFile = "ok"
          /\ \E has \in SUBSET {"install", "tag"}, p \in {"", "/p1"}, t \in PersistedTags :
                cfg = [has |-> has,
                       install |-> IF "install" \in has THEN p ELSE "",
                       tag |-> IF "tag" \in has THEN t ELSE EmptyTag]
    /\ \E old \in {"absent", "present"} :
          fs = [r \in Roots \cup {DevRoot, OldConfig} |->
                   IF r = OldConfig THEN old ELSE "empty"]
    /\ deploy_tag = NoneTag
    /\ install_path = NoPath
    /\ venv_info = NoVenvInfo
    /\ requirements_path = NoPath
    /\ tmp = NoTmp
    /\ total_tries = 0
    /\ valid_status = FALSE
    /\ dep_result = "none"
    /\ exc = ""
    /\ stack = <<>>
    /\ hist = [NoHist EXCEPT !.cfg0 = get_config_data(cfgFile, cfg), !.file0 = cfgFile]

\* _clean_old_config, the first statement of _setup_config: os.remove of the
\* old file succeeds or raises OSError, which 'except RuntimeError' does not
\* catch
CleanOldConfig ==
    /\ pc = "init"
    /\ IF fs[OldConfig] = "absent"
       THEN /\ pc' = "create_config"
            /\ UNCHANGED <<fs, exc, hist>>
       ELSE \E remove \in {"ok", "oserror"} :
              /\ hist' = [hist EXCEPT !.old_remove = remove]
              /\ IF remove = "ok"
                 THEN /\ fs' = [fs EXCEPT ![OldConfig] = "absent"]
                      /\ pc' = "create_config"
                      /\ exc' = exc
                 ELSE /\ fs' = fs
                      /\ pc' = "Failed"
                      /\ exc' = "OSError"
    /\ UNCHANGED <<args, stack, store, deploy_tag, install_path, venv_info, fetch>>

\* the rest of _setup_config: a missing config file is created holding {},
\* unless open(config_file, 'w') raises
CreateConfigFile ==
    /\ pc = "create_config"
    /\ \E create \in {"ok", "raise"} :
          IF cfgFile = "missing" /\ create = "raise"
          THEN /\ pc' = "Failed"
               /\ exc' = "IOError"
               /\ UNCHANGED store
          ELSE /\ cfgFile' = _setup_config(cfgFile)
               /\ cfg' = cfg
               /\ pc' = "setup_ui"
               /\ exc' = exc
    /\ UNCHANGED <<args, stack, fs, deploy_tag, install_path, venv_info, fetch, hist>>

LegacyNext ==
    \/ CleanOldConfig
    \/ CreateConfigFile

LegacySpec == LegacyInit /\ [][LegacyNext]_vars

\* ------------------------------------------------------------------------
\* __main__: the command line and the call of the constructor
\* ------------------------------------------------------------------------

\* the flags of the command line that may be given or left out
Flags ==
    {"project_name", "version", "repository", "icon_path", "splash_path",
     "script_path", "dev"}

\* the keyword arguments of the ArtellaUpdater(...) call of lines 1661-1669
MainKeywords ==
    {"project_name", "app_version", "deployment_repository", "environment",
     "splash_path", "script_path", "dev"}

\* the parameters of ArtellaUpdater.__init__ (lines 58-62)
InitParameters ==
    {"project_name", "app_version", "deployment_repository", "documentation_url",
     "deploy_tag", "install_env_var", "requirements_file_name", "force_venv",
     "splash_path", "script_path", "dev", "parent"}

\* a call with keyword arguments raises TypeError when one of them names no
\* parameter of the function
CallRaises(keywords, parameters) == keywords \ parameters # {}

\* lines 68-72: a value given on the command line is used, else the value of
\* the packaged config
FromFlagOrConfig(given, flag) == IF flag \in given THEN "flag" ELSE "config"

\* the process started with the flags hist.main.given
MainInit ==
    /\ pc = "main"
    /\ dev \in BOOLEAN
    /\ force_venv = FALSE
    /\ deploy_tag_arg = NoneTag
    /\ cfgFile = "ok"
    /\ cfg = EmptyCfg
    /\ fs = [r \in Roots \cup {DevRoot} |-> "empty"]
    /\ deploy_tag = NoneTag
    /\ install_path = NoPath
    /\ venv_info = NoVenvInfo
    /\ requirements_path = NoPath
    /\ tmp = NoTmp
    /\ total_tries = 0
    /\ valid_status = FALSE
    /\ dep_result = "none"
    /\ exc = ""
    /\ stack = <<>>
    /\ \E given \in SUBSET Flags :
          /\ ("dev" \in given) = dev
          /\ hist = [NoHist EXCEPT !.main.given = given]

\* the try block of __main__: the constructor is called, and its exception
\* is raised again as ArtellaUpdaterException
Main ==
    /\ pc = "main"
    /\ IF CallRaises(MainKeywords, InitParameters)
       THEN /\ pc' = "Failed"
            /\ exc' = "TypeError"
            /\ hist' = [hist EXCEPT !.main.called = TRUE]
       ELSE /\ pc' = "init"
            /\ exc' = exc
            /\ hist' = [hist EXCEPT
                  !.main.called = TRUE,
                  !.main.constructed = TRUE,
                  !.main.project_name = FromFlagOrConfig(hist.main.given, "project_name"),
                  !.main.repository = FromFlagOrConfig(hist.main.given, "repository"),
                  !.main.splash = FromFlagOrConfig(hist.main.given, "splash_path")]
    /\ UNCHANGED <<args, stack, store, fs, deploy_tag, install_path, venv_info, fetch>>

MainNext == Main

MainSpec == MainInit /\ [][MainNext]_vars

\* ------------------------------------------------------------------------
\* _sanitize_github_version on its own: every text of up to MaxTagLen
\* characters of TagChars, and some longer link texts
\* ------------------------------------------------------------------------

TagChars == {"1", ".", "r", "c", " ", "v"}

MaxTagLen == 5

\* link texts longer than MaxTagLen: release candidates with one and with two
\* digits, bare and as GitHub shows them
LongTags ==
    { <<"1", ".", "1", "r", "c", "1", "1">>,
      <<" ", "v", "1", ".", "1", "r", "c", "1", " ">>,
      <<"v", "1", ".", "1", ".", "1", "r", "c", "1", "1", "1">>,
      <<" ", " ", "v", "r", "c", "1", " ", " ">> }

TagTexts == SeqsUpTo(TagChars, MaxTagLen) \cup LongTags

\* the updater about to sanitize the link text hist.san.text
SanitizeInit ==
    /\ pc = "sanitize"
    /\ dev = FALSE
    /\ force_venv = FALSE
    /\ deploy_tag_arg = NoneTag
    /\ cfgFile = "ok"
    /\ cfg = EmptyCfg
    /\ fs = [r \in Roots \cup {DevRoot} |-> "empty"]
    /\ deploy_tag = NoneTag
    /\ install_path = NoPath
    /\ venv_info = NoVenvInfo
    /\ requirements_path = NoPath
    /\ tmp = NoTmp
    /\ total_tries = 0
    /\ valid_status = FALSE
    /\ dep_result = "none"
    /\ exc = ""
    /\ stack = <<>>
    /\ \E text \in TagTexts : hist = [NoHist EXCEPT !.san.text = text]

\* the text is sanitized, and what came out is sanitized again
Sanitize ==
    /\ pc = "sanitize"
    /\ pc' = "sanitized"
    /\ hist' = [hist EXCEPT
          !.san.once = _sanitize_github_version(hist.san.text),
          !.san.twice = _sanitize_github_version(_sanitize_github_version(hist.san.text))]
    /\ UNCHANGED <<args, stack, store, fs, deploy_tag, install_path, venv_info, fetch, exc>>

SanitizeNext == Sanitize

SanitizeSpec == SanitizeInit /\ [][SanitizeNext]_vars

\* ------------------------------------------------------------------------
\* one _load on its own: the updater entering _load with a tag and an install
\* path stored
\* ------------------------------------------------------------------------

FetchInit ==
    /\ pc = "check_setup"
    /\ dev = FALSE
    /\ force_venv \in BOOLEAN
    /\ deploy_tag_arg = NoneTag
    /\ cfgFile = "ok"
    /\ \E t \in {V1, V2} : /\ cfg = [has |-> {"install", "tag"}, install |-> "/p1", tag |-> t]
                           /\ deploy_tag = t
    /\ fs \in [Roots \cup {DevRoot} -> {"venv", "empty"}]
    /\ install_path = NoPath
    /\ venv_info = NoVenvInfo
    /\ requirements_path = NoPath
    /\ tmp = NoTmp
    /\ total_tries = 0
    /\ valid_status = FALSE
    /\ dep_result = "none"
    /\ exc = ""
    /\ stack = <<>>
    /\ hist = [NoHist EXCEPT !.cfg0 = get_config_data(cfgFile, cfg), !.file0 = cfgFile]

FetchNext ==
    \/ CheckSetup
    \/ SetInstallationPath
    \/ InitTagsCombo
    \/ SetupEnvironment
    \/ SetupDeployment
    \/ TryDownloadUnzip
    \/ ScanRequirements
    \/ InstallRequirements
    \/ FinishLoad

FetchSpec == FetchInit /\ [][FetchNext]_vars

\* ------------------------------------------------------------------------
\* the Launch button: launch() after a load, and after the load that a tag
\* chosen in the selector started
\* ------------------------------------------------------------------------

\* launch(): the clicked signal of the Launch button, which is visible once a
\* load has found the installation. It returns False without environment
\* info, raises without a launcher script and else starts the launcher; when
\* not in dev mode it then quits the application.
Launch ==
    /\ hist.launch_btn
    /\ stack = <<>>
    /\ pc \in {"Ready", "Failed"}
    /\ hist.launch.result = "none"
    /\ \E script \in {"file", "missing"} :
          IF venv_info = NoVenvInfo
          THEN /\ hist' = [hist EXCEPT !.launch = [result |-> "refused", load |-> pc,
                                                   tag |-> deploy_tag]]
               /\ UNCHANGED <<pc, exc>>
          ELSE IF script = "missing"
          THEN /\ hist' = [hist EXCEPT !.launch = [result |-> "raise", load |-> pc,
                                                   tag |-> deploy_tag]]
               /\ exc' = "Exception"
               /\ pc' = pc
          ELSE /\ hist' = [hist EXCEPT !.launch = [result |-> "started", load |-> pc,
                                                   tag |-> deploy_tag]]
               /\ pc' = IF dev THEN pc ELSE "Quit"
               /\ exc' = exc
    /\ UNCHANGED <<args, stack, store, fs, deploy_tag, install_path, venv_info, fetch>>

\* _on_selected_tag while no load is under way
SelectTagWhenIdle == Idle /\ OnSelectedTag

LaunchNext ==
    \/ CheckSetup
    \/ SetInstallationPath
    \/ InitTagsCombo
    \/ SetupEnvironment
    \/ SetupDeployment
    \/ TryDownloadUnzip
    \/ ScanRequirements
    \/ InstallRequirements
    \/ FinishLoad
    \/ SelectTagWhenIdle
    \/ Launch

LaunchSpec == ReentryInit /\ [][LaunchNext]_vars

\* ------------------------------------------------------------------------
\* the tag selector: _on_selected_tag after a load has filled the selector.
\* Indices are those of QComboBox, from 0; -1 is no current item.
\* ------------------------------------------------------------------------

\* the most changes of the selector in one run
MaxChoices == 2

\* the most items of the selector
MaxItems == 3

\* itemText(i)
itemText(items, i) == IF i >= 0 /\ i < Len(items) THEN items[i + 1] ELSE EmptyTag

\* deploy_tag_index of _init_tags_combo: the indices whose text is the tag
deploy_tag_index(items, tag) == {i \in 0..(Len(items) - 1) : itemText(items, i) = tag}

\* currentIndex() of a selector that was filled by addItem and never set
FilledIndex(items) == IF items = <<>> THEN -1 ELSE 0

\* _selected_tag_index after _init_tags_combo of the first load: the first
\* index of the deploy tag, else (None is falsy, and so is 0) currentIndex()
InitSelectedIndex(items, tag) ==
    IF tag # EmptyTag /\ deploy_tag_index(items, tag) # {} /\ Least(deploy_tag_index(items, tag)) # 0
    THEN Least(deploy_tag_index(items, tag))
    ELSE FilledIndex(items)

\* what _get_all_releases can fill the selector with: versions without
\* repetition; a link text of blanks only gives the empty text
SelectorItems ==
    {items \in SeqsUpTo({V1, V2, T120, EmptyTag}, MaxItems) :
        \A i, j \in 1..Len(items) : items[i] = items[j] => i = j}

\* the updater after a load that reached Ready, its selector filled
SelectorInit ==
    /\ pc = "Ready"
    /\ dev = FALSE
    /\ force_venv = FALSE
    /\ deploy_tag_arg = NoneTag
    /\ cfgFile = "ok"
    /\ deploy_tag \in {V1, V2}
    /\ cfg = [has |-> {"install", "tag"}, install |-> "/p1", tag |-> deploy_tag]
    /\ fs = [r \in Roots \cup {DevRoot} |-> IF r = "/p1" THEN "venv" ELSE "empty"]
    /\ install_path = "/p1"
    /\ venv_info = NoVenvInfo
    /\ requirements_path = NoPath
    /\ tmp = NoTmp
    /\ total_tries = 0
    /\ valid_status = TRUE
    /\ dep_result = "ok"
    /\ exc = ""
    /\ stack = <<>>
    /\ \E items \in SelectorItems :
          hist = [NoHist EXCEPT !.cfg0 = get_config_data(cfgFile, cfg), !.file0 = cfgFile,
                                !.releases = items,
                                !.sel.items = items,
                                !.sel.selected = InitSelectedIndex(items, deploy_tag),
                                !.sel.current = InitSelectedIndex(items, deploy_tag)]

\* the user changes the selector to new_index: currentIndexChanged runs
\* _on_selected_tag(new_index)
ChooseItem ==
    /\ pc = "Ready"
    /\ hist.sel.choices < MaxChoices
    /\ \E new_index \in 0..(Len(hist.sel.items) - 1), answer \in {"Yes", "No"} :
          LET new_tag == itemText(hist.sel.items, new_index)
              w == _set_config_tag(cfgFile, cfg, new_tag)
              h == [hist EXCEPT !.sel.choices = @ + 1, !.sel.current = new_index,
                                !.sel.last = [index |-> new_index, text |-> new_tag,
                                              answer |-> IF new_tag = EmptyTag THEN "none"
                                                         ELSE answer]]
          IN
          /\ new_index # hist.sel.current
          /\ IF new_tag = EmptyTag
             THEN \* 'if not new_tag: return'
                  /\ hist' = h
                  /\ UNCHANGED <<pc, store, deploy_tag, fetch>>
             ELSE IF answer = "Yes"
             THEN /\ deploy_tag' = new_tag
                  /\ cfgFile' = w.file
                  /\ cfg' = w.data
                  /\ pc' = "check_setup"
                  /\ tmp' = NoTmp
                  /\ total_tries' = 0
                  /\ valid_status' = FALSE
                  /\ dep_result' = "none"
                  /\ hist' = [h EXCEPT !.sel.prompts = @ + 1, !.sel.selected = new_index,
                                       !.sel.loads = @ + 1]
                  /\ UNCHANGED requirements_path
             ELSE \* setCurrentIndex(self._selected_tag_index) with the signals blocked
                  /\ hist' = [h EXCEPT !.sel.prompts = @ + 1,
                                       !.sel.current = hist.sel.selected]
                  /\ UNCHANGED <<pc, store, deploy_tag, fetch>>
    /\ UNCHANGED <<args, stack, fs, install_path, venv_info, exc>>

SelectorNext == ChooseItem

SelectorSpec == SelectorInit /\ [][SelectorNext]_vars

\* ------------------------------------------------------------------------
\* _set_installation_path on its own: every state of the install roots, with
\* and without a stored install path
\* ------------------------------------------------------------------------

PathInit ==
    /\ pc = "set_installation_path"
    /\ dev \in BOOLEAN
    /\ force_venv = FALSE
    /\ deploy_tag_arg = NoneTag
    /\ cfgFile = "ok"
    /\ \E p \in {""} \cup Roots :
          cfg = [has |-> IF p = "" THEN {"tag"} ELSE {"install", "tag"}, install |-> p,
                 tag |-> V1]
    /\ fs \in [Roots \cup {DevRoot} -> RootStates]
    /\ deploy_tag = V1
    /\ install_path = NoPath
    /\ venv_info = NoVenvInfo
    /\ requirements_path = NoPath
    /\ tmp = NoTmp
    /\ total_tries = 0
    /\ valid_status = FALSE
    /\ dep_result = "none"
    /\ exc = ""
    /\ stack = <<>>
    /\ hist = [NoHist EXCEPT !.cfg0 = get_config_data(cfgFile, cfg), !.file0 = cfgFile]

PathNext == SetInstallationPath

PathSpec == PathInit /\ [][PathNext]_vars

\* ------------------------------------------------------------------------
\* Properties
\* ------------------------------------------------------------------------

Terminal == pc \in {"Ready", "Failed"}

\* the tag the config store held when the run began
PersistedTag == ConfigTag(hist.cfg0)

\* the tag the config store holds now
StoredTag == ConfigTag(get_config_data(cfgFile, cfg))

\* the install path the config store holds now
StoredInstall == ConfigInstall(get_config_data(cfgFile, cfg))

Entered(p) == InSeq(hist.phases, p)

\* C1: when the user declines the upgrade question (a tag is persisted and the
\* latest tag is newer), the run goes on with the persisted tag: it is the
\* deploy tag, the tag of the archive URL once Fetching began, and the config
\* store's 'tag' is still the persisted tag in every later state of the run.
C1_DeclineKeepsPersistedTag ==
    hist.prompt = "No" =>
        /\ deploy_tag = PersistedTag
        /\ cfgFile = "ok" /\ "tag" \in cfg.has /\ StoredTag = PersistedTag
        /\ Entered("Fetching") => hist.url_tag = PersistedTag

\* C1 witness: a run that declined an upgrade to a newer latest tag, installed
\* and reached Ready.
C1_Witness ==
    /\ hist.prompt = "No"
    /\ VersionGT(Version(hist.latest), Version(PersistedTag))
    /\ hist.installed
    /\ pc = "Ready"

FreshRun == hist.file0 = "missing" /\ ~dev /\ deploy_tag_arg = NoneTag

\* C2 as stated: after a fresh run (no config file, not dev) with a valid
\* latest tag that reached Ready, the config store holds 'tag' equal to the
\* latest tag and an install path that is an existing directory.
C2_FreshRunPersistsTag ==
    (FreshRun /\ hist.latest # NoneTag /\ pc = "Ready") =>
        /\ "tag" \in cfg.has /\ StoredTag = hist.latest
        /\ os_path_isdir(fs, StoredInstall)

BadPersisted == PersistedTag # EmptyTag /\ ~Version(PersistedTag).ok

\* C3 as stated: when the catalog answered and the persisted tag is
\* unparseable or the latest tag is missing, tag resolution ends without an
\* exception and without the upgrade question, and the run goes on to the
\* prerequisites with the valid one of the two tags.
C3_BadTagNeverCrashes ==
    (/\ ~dev /\ Entered("ResolvingTag") /\ ~Entered("CheckingPrereqs")
     /\ exc # "ConnectionError"
     /\ (BadPersisted \/ hist.latest = NoneTag)) =>
        /\ exc = ""
        /\ pc = "check_setup"
        /\ hist.prompt = "none"
        /\ (~BadPersisted /\ PersistedTag # EmptyTag) => deploy_tag = PersistedTag
        /\ (BadPersisted /\ hist.latest # NoneTag) => deploy_tag = hist.latest

Rank(p) ==
    CASE p = "CheckingPrereqs" -> 1
      [] p = "ResolvingInstallPath" -> 2
      [] p = "ResolvingTag" -> 3
      [] p = "Provisioning" -> 4
      [] p = "Fetching" -> 5
      [] p = "Installing" -> 6
      [] p = "Ready" -> 7

\* C4 as stated: the states are entered only in the order CheckingPrereqs,
\* ResolvingInstallPath, ResolvingTag, Provisioning, Fetching, Installing,
\* Ready; after a failure in a state no later state is entered; and a run in
\* which a state failed ends in Failed.
C4_StatesInOrder ==
    /\ \A i, j \in 1..Len(hist.phases) :
          i < j => Rank(hist.phases[i]) < Rank(hist.phases[j])
    /\ \A p \in hist.failed_in : \A i \in 1..Len(hist.phases) :
          Rank(hist.phases[i]) <= Rank(p)
    /\ (Terminal /\ hist.failed_in # {}) => pc = "Failed"

\* C5 as stated: one fetch performs at most 10 download+extract cycles.
C5_AtMostTenCycles == total_tries <= 10

\* C6 as stated: a download error of one attempt is retried inside the
\* fetcher: it never leaves _setup_deployment as an exception.
C6_DownloadErrorRetried == hist.dl_error => (dep_result # "raise" /\ exc = "")

\* C7: the retry loop ends (never more than MaxTries + 1 passes), and once the
\* fetch is over with every attempt failed, the run is in Failed, nothing was
\* scanned or installed, and the temporary directory is gone.
C7_ExhaustedFetchFails ==
    /\ total_tries <= MaxTries + 1
    /\ (hist.fetched /\ ~valid_status /\ pc # "retry_loop") =>
          /\ pc = "Failed"
          /\ dep_result \in {"false", "raise"}
          /\ ~hist.scanned /\ ~hist.installed
          /\ ~tmp.exists

\* C7 witness: every pass of the loop failed at extraction and the run is over.
C7_Witness ==
    /\ hist.fetched /\ ~valid_status /\ ~hist.dl_error
    /\ total_tries = MaxTries + 1
    /\ pc = "Failed"

\* C8 as stated: when a download attempt starts, the download file holds no
\* bytes of an earlier attempt.
C8_AttemptStartsClean ==
    (pc = "retry_loop" /\ LoopRuns(valid_status, total_tries)) => tmp.n = 0

\* C9: in a run that is not dev, the temporary directory does not exist once
\* _setup_deployment is left, however it was left.
C9_TempDirRemoved ==
    (~dev /\ (dep_result # "none" \/ pc \in {"finish_load", "Ready", "Failed"})) =>
        ~tmp.exists

\* C9 witness: _setup_deployment was left by an exception after a download
\* was written to the temporary directory.
C9_Witness ==
    ~dev /\ dep_result = "raise" /\ hist.fetched /\ pc = "Failed"

\* C10 as stated: a run whose pip ended with a non-zero exit code does not get
\* past Installing: it is never in Ready.
C10_PipFailureFails ==
    hist.pip_exit = "nonzero" => pc \notin {"finish_load", "Ready"}

\* C11 as stated: after a successful extraction the scan yields the first
\* file named like the manifest in walk order, and a walk without such a file
\* fails the fetch.
C11_FirstMatchWins ==
    hist.scanned =>
        /\ hist.first_match # NoPath => requirements_path = hist.first_match
        /\ hist.first_match = NoPath =>
              (pc = "Failed" /\ dep_result = "false" /\ requirements_path = NoPath)

\* C12 as stated: when _setup_environment runs forced and the environment
\* folder exists, the folder is removed before virtualenv is invoked, and a
\* removal that fails ends the run in Failed without virtualenv being run.
C12_ForcedRecreateDeletesFirst ==
    (Entered("Provisioning") /\ force_venv /\ hist.venv_dir0) =>
        /\ hist.venv_rm # "none"
        /\ hist.venv_rm = "raise" => (hist.venv_tool = "none" /\ pc = "Failed")

\* C13 as stated: when virtualenv failed, the run is in Failed and neither
\* Fetching nor Installing nor Ready was entered.
C13_ProvisionFailureFails ==
    hist.venv_tool = "fail" =>
        /\ pc = "Failed"
        /\ ~Entered("Fetching") /\ ~Entered("Installing") /\ ~Entered("Ready")

\* C14: a later call of _setup_environment with force_venv false on an
\* environment folder that exists leaves the disk as it was, runs neither the
\* removal nor virtualenv, and yields the environment info of the call before.
C14_SecondCallIsNoOp ==
    (hist.calls >= 1 /\ pc = "setup_deployment" /\ ~force_venv /\ hist.venv_dir0) =>
        /\ fs = hist.env0.fs
        /\ venv_info = hist.env0.info
        /\ hist.venv_tool = "none" /\ hist.venv_rm = "none"

\* C14 witness: the second call ended, not forced, on a folder the first call
\* had found on disk.
C14_Witness ==
    /\ hist.calls = 1 /\ pc = "setup_deployment" /\ ~force_venv /\ hist.venv_dir0
    /\ ~dev /\ fs[install_path] = "venv"

\* whether record data holds the one entry of pair
HoldsPair(data, pair) ==
    /\ pair.has \subseteq data.has
    /\ "install" \in pair.has => data.install = pair.install
    /\ "tag" \in pair.has => data.tag = pair.tag

C16_CorruptNeverFatal ==
    hist.file0 \in {"corrupt", "notobject", "unreadable"} =>
        /\ exc = ""
        /\ (hist.st.op = "read" /\ hist.st.wrote = "none") => hist.st.data = EmptyCfg
        /\ hist.st.op = "write" => (hist.st.wrote = "true" /\ cfgFile = "ok")

\* C17 as stated: once a run has been through _set_installation_path and is
\* over, the install path the config store holds is empty or an existing
\* directory.
C17_StoredPathExists ==
    (Terminal /\ Entered("ResolvingInstallPath")) =>
        (StoredInstall = "" \/ os_path_isdir(fs, StoredInstall))

C19_UninstallClearsPath ==
    hist.uninstall.answer = "Yes" =>
        (cfgFile = "ok" /\ "install" \in cfg.has /\ cfg.install = "")

\* C19 witness: a confirmed uninstall whose removal stopped part-way, the
\* project folder still on disk.
C19_Witness ==
    /\ hist.uninstall.answer = "Yes" /\ hist.uninstall.rmtree = "partial"
    /\ venv_folder_isdir(fs, FALSE, install_path)
    /\ pc = "Quit"

\* C20 as stated: the success message of an uninstall is shown only when the
\* project folder is no longer on disk.
C20_SuccessOnlyWhenRemoved ==
    hist.uninstall.message = "success" => ~venv_folder_isdir(fs, FALSE, install_path)

\* the deploy tag has been resolved: __init__ is past line 89
Resolved == pc = "check_setup" \/ Entered("CheckingPrereqs")

\* C21: with a deploy_tag argument the deploy tag is that argument whatever
\* the config store and the releases page hold: no latest tag is asked for to
\* resolve it, no upgrade question is put, and the archive URL carries it.
\* Without the argument (and not in dev mode) a resolved deploy tag is the
\* latest tag when no tag is persisted, and otherwise the persisted tag,
\* unless the user answered Yes to the upgrade question, which gives the
\* latest tag.
C21_OverrideThenPersistedThenLatest ==
    /\ (deploy_tag_arg # NoneTag /\ pc # "init") =>
          /\ deploy_tag = deploy_tag_arg
          /\ ~Entered("ResolvingTag") /\ hist.prompt = "none"
          /\ Entered("Fetching") => hist.url_tag = deploy_tag_arg
    /\ (deploy_tag_arg = NoneTag /\ ~dev /\ Resolved) =>
          IF PersistedTag = EmptyTag
          THEN deploy_tag = hist.latest /\ hist.prompt = "none"
          ELSE \/ deploy_tag = PersistedTag /\ hist.prompt # "Yes"
               \/ deploy_tag = hist.latest /\ hist.prompt = "Yes"

\* C21 witness: a run given the tag 1.0 while the config store held 2.0
\* fetched the archive of 1.0 and reached Ready.
C21_Witness ==
    /\ deploy_tag_arg = V1
    /\ PersistedTag = V2
    /\ ~dev
    /\ hist.url_tag = V1
    /\ hist.installed
    /\ pc = "Ready"

\* C22: when the user answers Yes to the upgrade question (which is put only
\* when the persisted tag is older than the latest tag), the config store's
\* 'tag' is the latest tag from then on, the deploy tag is the latest tag, and
\* the archive URL carries the latest tag once Fetching began.
C22_AcceptedUpgradeReplacesTag ==
    hist.prompt = "Yes" =>
        /\ VersionGT(Version(hist.latest), Version(PersistedTag))
        /\ deploy_tag = hist.latest
        /\ cfgFile = "ok" /\ "tag" \in cfg.has /\ StoredTag = hist.latest
        /\ Entered("Fetching") => hist.url_tag = hist.latest

\* C22 witness: a run that accepted the upgrade from 1.0 to 2.0 fetched,
\* installed and reached Ready.
C22_Witness ==
    /\ hist.prompt = "Yes"
    /\ PersistedTag = V1 /\ hist.latest = V2
    /\ hist.fetched /\ hist.installed
    /\ pc = "Ready"

\* the place of a tag of TagPool in the version order the upgrade question is
\* specified by: components compare as numbers, a release candidate comes
\* before its final release, 2.0 and 2.0.0 are the same version
TagOrder(t) ==
    IF t = V1 THEN 1
    ELSE IF t = T120 THEN 2
    ELSE IF t = T1100 THEN 3
    ELSE IF t = T200rc1 THEN 4
    ELSE 5

\* C23: with a persisted tag and a latest tag that both parse, the upgrade
\* question is put exactly when the persisted tag is strictly older than the
\* latest tag (1.2.0 < 1.10.0, 2.0.0rc1 < 2.0.0); when it is equal or newer
\* there is no question, the config store is as it was, nothing failed in tag
\* resolution and the deploy tag is the persisted tag.
C23_PromptIffStrictlyOlder ==
    (pc # "get_deploy_tag" /\ hist.latest # NoneTag) =>
        /\ PersistedTag \in TagPool /\ hist.latest \in TagPool
        /\ (hist.prompt # "none") <=> (TagOrder(PersistedTag) < TagOrder(hist.latest))
        /\ TagOrder(PersistedTag) >= TagOrder(hist.latest) =>
              /\ deploy_tag = PersistedTag
              /\ cfgFile = "ok" /\ get_config_data(cfgFile, cfg) = hist.cfg0
              /\ "ResolvingTag" \notin hist.failed_in

\* C23 witness: the question was put for a persisted 1.2.0 against the latest
\* 1.10.0, and the run went on to the prerequisites.
C23_Witness ==
    /\ PersistedTag = T120
    /\ hist.latest = T1100
    /\ hist.prompt = "No"
    /\ deploy_tag = T120
    /\ Entered("CheckingPrereqs")

\* the phases of the run end with Provisioning followed by Ready
ProvisioningThenReady ==
    /\ Len(hist.phases) >= 2
    /\ hist.phases[Len(hist.phases) - 1] = "Provisioning"
    /\ hist.phases[Len(hist.phases)] = "Ready"

\* C24: in dev mode the run asks nothing of the network: no releases page is
\* requested, no archive is checked for or downloaded and no temporary
\* download directory exists; a deploy tag resolved without a deploy_tag
\* argument is the literal DEV, the selector is filled with the list [DEV],
\* Fetching and Installing are never entered, and a run that reaches Ready
\* came to it straight from Provisioning.
C24_DevModeStaysLocal ==
    dev =>
        /\ ~hist.queried /\ hist.latest = NoneTag
        /\ ~Entered("Fetching") /\ ~Entered("Installing")
        /\ hist.url_tag = NoneTag /\ ~hist.fetched /\ ~hist.installed
        /\ tmp = NoTmp
        /\ (deploy_tag_arg = NoneTag /\ Resolved) => deploy_tag = DevTag
        /\ Entered("Provisioning") => hist.releases = <<DevTag>>
        /\ pc = "Ready" => ProvisioningThenReady

\* C24 witness: a dev run without a deploy_tag argument provisioned its
\* environment and reached Ready with the tag DEV.
C24_Witness ==
    /\ dev
    /\ deploy_tag_arg = NoneTag
    /\ deploy_tag = DevTag
    /\ hist.releases = <<DevTag>>
    /\ venv_info # NoVenvInfo
    /\ pc = "Ready"

RECURSIVE Flatten(_, _)
\* the tag texts of a listing from entry i on, in page order
Flatten(listing, i) ==
    IF i > Len(listing) THEN <<>> ELSE listing[i].tags \o Flatten(listing, i + 1)

\* the tag texts of the page the query was answered with
PageTags == Flatten(hist.cat.listing, 1)

\* entry i of the page qualifies: its sanitized tag parses as a version and
\* is no pre-release unless pre-releases are allowed
Qualifies(i) == Acceptable(Version(_sanitize_github_version(PageTags[i])), hist.cat.pre)

\* the returned tag is entry i of the page, as written or sanitized
ReturnsEntry(i) ==
    hist.cat.version \in {PageTags[i], _sanitize_github_version(PageTags[i])}

\* C25: with validate = True the query returns the first entry of the page, in
\* page order, whose sanitized tag parses as a version and whose pre-release
\* status is allowed, skipping the entries before it; it returns None only if
\* no entry of the page qualifies.
C25_FirstQualifyingEntry ==
    (pc = "catalog_done" /\ hist.cat.validate) =>
        IF \E i \in 1..Len(PageTags) : Qualifies(i)
        THEN \E i \in 1..Len(PageTags) :
                /\ Qualifies(i)
                /\ \A k \in 1..(i - 1) : ~Qualifies(k)
                /\ ReturnsEntry(i)
        ELSE hist.cat.version = NoneTag

\* C26: with validate = False the query returns the first entry of a page
\* that has one, whether it parses or not, and no later entry replaces it.
C26_LiteralFirstEntry ==
    (pc = "catalog_done" /\ ~hist.cat.validate /\ PageTags # <<>>) => ReturnsEntry(1)

\* C27: in a run that resolves its tag from the releases page (no deploy_tag
\* argument, not dev), when the query produced no latest tag - the request
\* raised, the page was empty or no entry was acceptable - the run has failed
\* at tag resolution: it enters neither Provisioning nor Fetching nor
\* Installing.
C27_NoLatestAbortsRun ==
    (/\ ~dev /\ deploy_tag_arg = NoneTag
     /\ Entered("ResolvingTag") /\ pc # "get_deploy_tag"
     /\ hist.latest = NoneTag) =>
        /\ pc = "Failed"
        /\ ~Entered("Provisioning") /\ ~Entered("Fetching") /\ ~Entered("Installing")

\* _check_setup has been called and is over
PrereqDone == hist.prereq.out.result # "none"

\* C30: with the interpreter and the package installer present, a virtualenv
\* that is not reachable is installed through pip, and the run continues if
\* and only if virtualenv is reachable after that; and the warning that opens
\* the documentation is shown only when the interpreter is not reachable.
C30_PrereqEscalation ==
    PrereqDone =>
        /\ (/\ hist.prereq.python = "ok" /\ hist.prereq.pip = "ok"
            /\ hist.prereq.virtualenv # "ok") =>
               /\ hist.prereq.out.pip_install
               /\ (pc = "set_installation_path") <=> (hist.prereq.after = "ok")
        /\ hist.prereq.out.dialog = "docs" => hist.prereq.python # "ok"

\* the steps in which a load provisions, fetches or installs
LoadOps ==
    {"setup_environment", "setup_deployment", "retry_loop", "downloading",
     "install_requirements"}

\* C28: no load provisions, fetches or installs while another load of the
\* same process is suspended in the middle of provisioning, fetching or
\* installing: a change of the tag selector during a yield to the event loop
\* starts no nested load.
C28_OneLoadAtATime ==
    \A i \in 1..Len(stack) : ~(stack[i].pc \in LoadOps /\ pc \in LoadOps)

\* C29: while a download is between two chunk reports, no step carries out a
\* user action: the deploy tag, the config store and the disk stay as they
\* are and no other load is started, until the download has ended.
C29_DownloadNotPreempted ==
    [][pc = "downloading" =>
          /\ deploy_tag' = deploy_tag
          /\ cfgFile' = cfgFile /\ cfg' = cfg
          /\ fs' = fs
          /\ stack' = stack]_vars

\* C31: the config file of the older version is gone only once the new
\* config file is present, and a removal that failed leaves the run going
\* with no exception.
C31_LegacyDeletedAfterNewStore ==
    /\ (hist.old_remove = "ok" /\ fs[OldConfig] = "absent") => cfgFile # "missing"
    /\ hist.old_remove = "oserror" => (pc # "Failed" /\ exc = "")

\* C32: whatever flags the command line gives, the call of the constructor
\* in __main__ constructs the updater, whose __init__ then runs, with no
\* exception; with no flags the project name, the repository and the splash
\* are those of the packaged config.
C32_MainConstructsUpdater ==
    hist.main.called =>
        /\ hist.main.constructed /\ pc = "init" /\ exc = ""
        /\ hist.main.given = {} =>
              /\ hist.main.project_name = "config"
              /\ hist.main.repository = "config"
              /\ hist.main.splash = "config"

\* C33: sanitizing what _sanitize_github_version returned gives the same
\* text again, for every text.
C33_SanitizeIdempotent ==
    pc = "sanitized" => hist.san.twice = hist.san.once

\* C33 witness: a text with spaces, a prefix and a release candidate was cut
\* down to its version, which sanitizing again left as it was.
C33_Witness ==
    /\ pc = "sanitized"
    /\ hist.san.text = <<" ", "v", "1", ".", "1", "r", "c", "1", " ">>
    /\ hist.san.once = <<"1", ".", "1", "r", "c", "1">>
    /\ hist.san.twice = hist.san.once

\* the indices of the text at which a dotted-numeric sequence begins
VersionStarts == {i \in 1..Len(hist.san.text) : MatchAt(hist.san.text, i) > 0}

\* the end of the dotted-numeric sequence that begins at i, before any rc
DottedEnd(i) == GroupsEnd(hist.san.text, DigitsEnd(hist.san.text, i))

\* the text has rc and at least one digit after the dotted-numeric sequence
\* that ends at g
HasRcDigits(g) ==
    /\ g + 3 <= Len(hist.san.text)
    /\ hist.san.text[g + 1] = "r" /\ hist.san.text[g + 2] = "c"
    /\ IsDigit(hist.san.text[g + 3])

\* C34: the sanitized text is the first dotted-numeric sequence of the text,
\* together with the rc and every digit after it when an rc with digits
\* follows; a text without a dotted-numeric sequence comes back trimmed.
C34_SanitizeKeepsRcDigits ==
    pc = "sanitized" =>
        IF VersionStarts = {} THEN hist.san.once = Strip(hist.san.text)
        ELSE LET i == Least(VersionStarts) IN
             IF HasRcDigits(DottedEnd(i))
             THEN hist.san.once =
                     SubSeq(hist.san.text, i, DigitsEnd(hist.san.text, DottedEnd(i) + 3))
             ELSE \E e \in {DottedEnd(i), DottedEnd(i) + 2} \cap (1..Len(hist.san.text)) :
                     hist.san.once = SubSeq(hist.san.text, i, e)

\* C35: an attempt whose extraction failed counts as failed, and the search
\* for the requirements file runs only when the last attempt downloaded and
\* extracted: never after a fetch whose last attempt failed.
C35_ScanOnlyAfterFullAttempt ==
    /\ (hist.unzip = "failed" /\ Entered("Fetching")) => ~valid_status
    /\ hist.scanned => (valid_status /\ hist.unzip = "ok" /\ hist.fetched)
    /\ (pc = "Failed" /\ hist.unzip = "failed") => (~hist.scanned /\ ~hist.installed)

\* C35 witness: an attempt extracted nothing, the next one downloaded and
\* extracted, and the requirements file was searched.
C35_Witness ==
    /\ hist.scanned /\ total_tries >= 2 /\ valid_status /\ hist.unzip = "ok"

\* C36 as stated: when a run is over and the tag the config store holds is
\* not the one it held before the run, the run ended in Ready with that tag as
\* its deploy tag; a run that ended in Failed left the stored tag as it was.
C36_TagCommittedOnlyOnReady ==
    (Terminal /\ StoredTag # PersistedTag) => (pc = "Ready" /\ deploy_tag = StoredTag)

\* C37 as stated: the launcher is started only when the load before it ended
\* in Ready with the deploy tag of that moment; with no environment info
\* nothing is started, and after a tag chosen in the selector whose load
\* failed the Launch button starts nothing.
C37_LaunchOnlyAfterReady ==
    /\ hist.launch.result = "refused" => venv_info = NoVenvInfo
    /\ hist.launch.result = "started" =>
          (venv_info # NoVenvInfo /\ hist.launch.load = "Ready")

\* C38 as stated: a change of the tag selector that the user confirms makes
\* the chosen tag the deploy tag and the stored tag, records its index and
\* starts a load; one that the user declines, or whose item text is empty,
\* leaves the deploy tag, the stored tag and the recorded index as they were,
\* puts the selector back on the recorded index and asks nothing more.
C38_SelectorChangesOnlyOnConfirm ==
    [][hist'.sel.choices # hist.sel.choices =>
          IF hist'.sel.last.answer = "Yes"
          THEN /\ deploy_tag' = hist'.sel.last.text
               /\ StoredTag' = hist'.sel.last.text
               /\ hist'.sel.selected = hist'.sel.last.index
               /\ hist'.sel.loads = hist.sel.loads + 1
               /\ pc' = "check_setup"
          ELSE /\ deploy_tag' = deploy_tag
               /\ StoredTag' = StoredTag
               /\ hist'.sel.selected = hist.sel.selected
               /\ hist'.sel.current = hist.sel.selected
               /\ hist'.sel.loads = hist.sel.loads
               /\ hist'.sel.prompts <= hist.sel.prompts + 1
               /\ pc' = pc]_vars

\* C39: a step of _set_installation_path changes the disk only when the
\* install root holds a project folder that lacks Include, Lib or Scripts:
\* then the whole root is removed and the folder dialog is shown (or the
\* removal raised and the run failed); a root whose project folder has all
\* three, or that has no project folder, and every other folder, stay as they
\* were.
C39_RemovesOnlyOldInstallation ==
    [][pc = "set_installation_path" =>
          LET root == _get_installation_path(dev, cfgFile, cfg) IN
          IF root \in DOMAIN fs /\ fs[root] = "old"
          THEN \/ fs' = [fs EXCEPT ![root] = "absent"] /\ hist'.dialog # "none"
               \/ fs' = fs /\ pc' = "Failed" /\ exc' = "OSError"
          ELSE fs' = fs]_vars

\* C39 witness: the old installation in the stored root /p1 was removed with
\* the whole root, the user was asked and picked /p2, which stayed as it was.
C39_Witness ==
    /\ hist.rmtree_old /\ ~dev
    /\ ConfigInstall(hist.cfg0) = "/p1" /\ fs["/p1"] = "absent"
    /\ hist.dialog = "/p2" /\ fs["/p2"] = "venv" /\ install_path = "/p2"

\* the entries of a config record other than those of the written pair
OtherEntries(data, pair) ==
    [has |-> data.has \ pair.has,
     install |-> IF "install" \in pair.has THEN "" ELSE ConfigInstall(data),
     tag |-> IF "tag" \in pair.has THEN EmptyTag ELSE ConfigTag(data)]

\* C40: a _set_config(k, v) on a config file that exists and that returned
\* True leaves every entry other than k as get_config_data gave it before and
\* has v at k; one that raised left the store as it was; and on a missing
\* config file it returns False and there is still no file.
C40_WriteChangesOnlyKey ==
    [][(pc = "store" /\ hist'.st.op = "write" /\ hist'.st # hist.st) =>
          IF cfgFile = "missing"
          THEN hist'.st.wrote = "false" /\ cfgFile' = "missing" /\ cfg' = cfg
          ELSE IF hist'.st.wrote = "true"
          THEN /\ cfgFile' = "ok"
               /\ HoldsPair(cfg', hist'.st.pair)
               /\ OtherEntries(cfg', hist'.st.pair) =
                     OtherEntries(get_config_data(cfgFile, cfg), hist'.st.pair)
          ELSE hist'.st.wrote = "raise" /\ cfgFile' = cfgFile /\ cfg' = cfg]_vars

\* C40 witness: the install path /p2 was written to a store that held the tag
\* 1.0, and the tag is still there.
C40_Witness ==
    /\ hist.st.op = "write" /\ hist.st.prev = "none" /\ hist.st.wrote = "true"
    /\ hist.st.pair = Pair("install", "/p2", EmptyTag)
    /\ ConfigTag(hist.cfg0) = V1 /\ hist.file0 = "ok"
    /\ StoredTag = V1 /\ StoredInstall = "/p2"

====
